---- MODULE Spec2Model ----
(***************************************************************************)
(* Assignment and scheduling core of the Home Hospital Scheduling backend. *)
(* The data store (patients, working_hours, patient_assignments,           *)
(* schedules) is the state; every route handler and service function is    *)
(* one action.  Times are kept in the representation the code uses:        *)
(* "HH:MM" strings, modelled as sequences of one-character strings, so     *)
(* that formatting and parsing are computed and not assumed.               *)
(***************************************************************************)
EXTENDS Integers, Sequences, FiniteSets, TLC

(***************************************************************************)
(* Bounds of the model.                                                    *)
(***************************************************************************)
MaxAssignments == 5      \* rows ever inserted into patient_assignments
MaxAdmin == 2            \* manual-create, status, reassign and delete requests served
MaxBatch == 2            \* items of one bulk-assign request
MaxRoute == 3            \* patients of one visit list

(***************************************************************************)
(* JavaScript string helpers used by the time arithmetic.                  *)
(***************************************************************************)
DigitChars == <<"0", "1", "2", "3", "4", "5", "6", "7", "8", "9">>

\* Number.prototype.toString() of a non-negative integer
RECURSIVE NumToString(_)
NumToString(n) ==
  IF n < 10 THEN <<DigitChars[n + 1]>>
  ELSE NumToString(n \div 10) \o <<DigitChars[(n % 10) + 1]>>

\* String.prototype.padStart(2, '0')
PadStart2(s) == IF Len(s) < 2 THEN <<"0">> \o s ELSE s

DigitValue(c) == CHOOSE d \in 0..9 : DigitChars[d + 1] = c

\* Number(s) of a string of decimal digits
RECURSIVE StringToNumber(_)
StringToNumber(s) ==
  IF s = <<>> THEN 0
  ELSE StringToNumber(SubSeq(s, 1, Len(s) - 1)) * 10 + DigitValue(s[Len(s)])

\* String.prototype.split(':')
RECURSIVE SplitColon(_)
SplitColon(s) ==
  IF \A i \in 1..Len(s) : s[i] # ":" THEN <<s>>
  ELSE LET k == CHOOSE i \in 1..Len(s) :
                  s[i] = ":" /\ \A j \in 1..(i - 1) : s[j] # ":"
       IN <<SubSeq(s, 1, k - 1)>> \o SplitColon(SubSeq(s, k + 1, Len(s)))

\* const [h, m] = t.split(':').map(Number); h * 60 + m
ParseMinutes(t) ==
  LET parts == SplitColon(t)
  IN StringToNumber(parts[1]) * 60 + StringToNumber(parts[2])

\* `${hours.toString().padStart(2,'0')}:${mins.toString().padStart(2,'0')}`
FormatTime(total) ==
  PadStart2(NumToString(total \div 60)) \o <<":">> \o PadStart2(NumToString(total % 60))

\* Helper: add minutes to time string
addMinutes(timeString, minutes) == FormatTime(ParseMinutes(timeString) + minutes)

(***************************************************************************)
(* Care duration.                                                          *)
(***************************************************************************)
NoDuration == 0   \* estimated_care_duration is null

CARE_DURATION_KEYS ==
  {"Wound Dressing", "Wound Care Specialist", "Post-operative Care",
   "IV Therapy Specialist", "Medication Administration", "Palliative Care",
   "Respiratory Care", "Diabetic Care", "Elderly Care", "Home Health Aide",
   "Nursing Care", "Physical Therapy", "Chronic Disease Management",
   "Home Visit - General Checkup", "Cardiac Care", "default"}

CARE_DURATION(k) ==
  CASE k = "Wound Dressing" -> 45
    [] k = "Wound Care Specialist" -> 45
    [] k = "Post-operative Care" -> 60
    [] k = "IV Therapy Specialist" -> 45
    [] k = "Medication Administration" -> 30
    [] k = "Palliative Care" -> 60
    [] k = "Respiratory Care" -> 45
    [] k = "Diabetic Care" -> 40
    [] k = "Elderly Care" -> 50
    [] k = "Home Health Aide" -> 45
    [] k = "Nursing Care" -> 50
    [] k = "Physical Therapy" -> 60
    [] k = "Chronic Disease Management" -> 45
    [] k = "Home Visit - General Checkup" -> 30
    [] k = "Cardiac Care" -> 45
    [] k = "default" -> 45

\* JavaScript values a property lookup on an object literal can yield
JsNumber(n) == [type |-> "number", value |-> n]
JsUndefined == [type |-> "undefined"]
JsInherited(name) == [type |-> "object", inherited |-> name]

\* names every object literal inherits from Object.prototype
ObjectPrototypeKeys ==
  {"constructor", "toString", "toLocaleString", "valueOf", "hasOwnProperty",
   "isPrototypeOf", "propertyIsEnumerable", "__proto__"}

\* CARE_DURATION[careNeeded]: an own key, an inherited member, or undefined
CareDurationLookup(careNeeded) ==
  IF careNeeded \in CARE_DURATION_KEYS THEN JsNumber(CARE_DURATION(careNeeded))
  ELSE IF careNeeded \in ObjectPrototypeKeys THEN JsInherited(careNeeded)
  ELSE JsUndefined

\* estimatedCareDuration && estimatedCareDuration > 0
OverrideGiven(estimatedCareDuration) ==
  estimatedCareDuration # NoDuration /\ estimatedCareDuration > 0

getCareDuration(careNeeded, estimatedCareDuration) ==
  IF OverrideGiven(estimatedCareDuration)
  THEN JsNumber(estimatedCareDuration)
  ELSE IF CareDurationLookup(careNeeded).type # "undefined"
       THEN CareDurationLookup(careNeeded)
       ELSE JsNumber(CARE_DURATION("default"))

(***************************************************************************)
(* Skill matching.  Strings are sequences of one-character strings.        *)
(***************************************************************************)
UpperChars == <<"A", "B", "C", "D", "E", "F", "G", "H", "I", "J", "K", "L", "M",
                "N", "O", "P", "Q", "R", "S", "T", "U", "V", "W", "X", "Y", "Z">>
LowerChars == <<"a", "b", "c", "d", "e", "f", "g", "h", "i", "j", "k", "l", "m",
                "n", "o", "p", "q", "r", "s", "t", "u", "v", "w", "x", "y", "z">>

\* String.prototype.toLowerCase()
toLowerCase(s) ==
  [i \in 1..Len(s) |->
     IF \E k \in 1..26 : UpperChars[k] = s[i]
     THEN LowerChars[CHOOSE k \in 1..26 : UpperChars[k] = s[i]]
     ELSE s[i]]

\* String.prototype.includes(part)
Includes(s, part) ==
  \E i \in 0..(Len(s) - Len(part)) : SubSeq(s, i + 1, i + Len(part)) = part

NullString == <<"null">>       \* null in place of a string
NullList == <<NullString>>     \* null in place of a list of specializations

\* Object.entries(CARE_SPECIALTY_MAP), in the order of the literal
CARE_SPECIALTY_MAP ==
  <<
    [key |-> <<"w", "o", "u", "n", "d", " ", "d", "r", "e", "s", "s", "i", "n", "g">>,
     specs |-> <<<<"W", "o", "u", "n", "d", " ", "C", "a", "r", "e">>,
               <<"W", "o", "u", "n", "d", " ", "C", "a", "r", "e", " ", "S", "p", "e", "c", "i", "a", "l", "i", "s", "t">>,
               <<"P", "o", "s", "t", "-", "o", "p", "e", "r", "a", "t", "i", "v", "e", " ", "C", "a", "r", "e">>,
               <<"N", "u", "r", "s", "i", "n", "g", " ", "C", "a", "r", "e">>>>],
    [key |-> <<"w", "o", "u", "n", "d", " ", "c", "a", "r", "e">>,
     specs |-> <<<<"W", "o", "u", "n", "d", " ", "C", "a", "r", "e">>,
               <<"W", "o", "u", "n", "d", " ", "C", "a", "r", "e", " ", "S", "p", "e", "c", "i", "a", "l", "i", "s", "t">>,
               <<"P", "o", "s", "t", "-", "o", "p", "e", "r", "a", "t", "i", "v", "e", " ", "C", "a", "r", "e">>,
               <<"N", "u", "r", "s", "i", "n", "g", " ", "C", "a", "r", "e">>>>],
    [key |-> <<"p", "o", "s", "t", "-", "o", "p", "e", "r", "a", "t", "i", "v", "e", " ", "c", "a", "r", "e">>,
     specs |-> <<<<"P", "o", "s", "t", "-", "o", "p", "e", "r", "a", "t", "i", "v", "e", " ", "C", "a", "r", "e">>,
               <<"W", "o", "u", "n", "d", " ", "C", "a", "r", "e">>,
               <<"N", "u", "r", "s", "i", "n", "g", " ", "C", "a", "r", "e">>,
               <<"A", "c", "u", "t", "e", " ", "C", "a", "r", "e">>>>],
    [key |-> <<"i", "v", " ", "t", "h", "e", "r", "a", "p", "y">>,
     specs |-> <<<<"I", "V", " ", "T", "h", "e", "r", "a", "p", "y", " ", "S", "p", "e", "c", "i", "a", "l", "i", "s", "t">>,
               <<"N", "u", "r", "s", "i", "n", "g", " ", "C", "a", "r", "e">>,
               <<"A", "c", "u", "t", "e", " ", "C", "a", "r", "e">>>>],
    [key |-> <<"m", "e", "d", "i", "c", "a", "t", "i", "o", "n", " ", "a", "d", "m", "i", "n", "i", "s", "t", "r", "a", "t", "i", "o", "n">>,
     specs |-> <<<<"M", "e", "d", "i", "c", "a", "t", "i", "o", "n", " ", "A", "d", "m", "i", "n", "i", "s", "t", "r", "a", "t", "i", "o", "n">>,
               <<"M", "e", "d", "i", "c", "a", "t", "i", "o", "n", " ", "M", "a", "n", "a", "g", "e", "m", "e", "n", "t">>,
               <<"N", "u", "r", "s", "i", "n", "g", " ", "C", "a", "r", "e">>>>],
    [key |-> <<"p", "a", "l", "l", "i", "a", "t", "i", "v", "e", " ", "c", "a", "r", "e">>,
     specs |-> <<<<"P", "a", "l", "l", "i", "a", "t", "i", "v", "e", " ", "C", "a", "r", "e">>,
               <<"E", "l", "d", "e", "r", "l", "y", " ", "C", "a", "r", "e">>,
               <<"N", "u", "r", "s", "i", "n", "g", " ", "C", "a", "r", "e">>>>],
    [key |-> <<"r", "e", "s", "p", "i", "r", "a", "t", "o", "r", "y", " ", "c", "a", "r", "e">>,
     specs |-> <<<<"R", "e", "s", "p", "i", "r", "a", "t", "o", "r", "y", " ", "C", "a", "r", "e">>,
               <<"P", "u", "l", "m", "o", "n", "o", "l", "o", "g", "y">>,
               <<"N", "u", "r", "s", "i", "n", "g", " ", "C", "a", "r", "e">>>>],
    [key |-> <<"d", "i", "a", "b", "e", "t", "i", "c", " ", "c", "a", "r", "e">>,
     specs |-> <<<<"D", "i", "a", "b", "e", "t", "i", "c", " ", "C", "a", "r", "e">>,
               <<"C", "h", "r", "o", "n", "i", "c", " ", "D", "i", "s", "e", "a", "s", "e", " ", "M", "a", "n", "a", "g", "e", "m", "e", "n", "t">>,
               <<"E", "n", "d", "o", "c", "r", "i", "n", "o", "l", "o", "g", "y">>>>],
    [key |-> <<"e", "l", "d", "e", "r", "l", "y", " ", "c", "a", "r", "e">>,
     specs |-> <<<<"E", "l", "d", "e", "r", "l", "y", " ", "C", "a", "r", "e">>,
               <<"H", "o", "m", "e", " ", "H", "e", "a", "l", "t", "h", " ", "A", "i", "d", "e">>,
               <<"N", "u", "r", "s", "i", "n", "g", " ", "C", "a", "r", "e">>,
               <<"G", "e", "r", "i", "a", "t", "r", "i", "c", " ", "C", "a", "r", "e">>>>],
    [key |-> <<"h", "o", "m", "e", " ", "h", "e", "a", "l", "t", "h", " ", "a", "i", "d", "e">>,
     specs |-> <<<<"H", "o", "m", "e", " ", "H", "e", "a", "l", "t", "h", " ", "A", "i", "d", "e">>,
               <<"N", "u", "r", "s", "i", "n", "g", " ", "C", "a", "r", "e">>,
               <<"E", "l", "d", "e", "r", "l", "y", " ", "C", "a", "r", "e">>>>],
    [key |-> <<"n", "u", "r", "s", "i", "n", "g", " ", "c", "a", "r", "e">>,
     specs |-> <<<<"N", "u", "r", "s", "i", "n", "g", " ", "C", "a", "r", "e">>,
               <<"H", "o", "m", "e", " ", "H", "e", "a", "l", "t", "h", " ", "A", "i", "d", "e">>,
               <<"M", "e", "d", "i", "c", "a", "t", "i", "o", "n", " ", "A", "d", "m", "i", "n", "i", "s", "t", "r", "a", "t", "i", "o", "n">>>>],
    [key |-> <<"p", "h", "y", "s", "i", "c", "a", "l", " ", "t", "h", "e", "r", "a", "p", "y">>,
     specs |-> <<<<"P", "h", "y", "s", "i", "c", "a", "l", " ", "T", "h", "e", "r", "a", "p", "y">>,
               <<"R", "e", "h", "a", "b", "i", "l", "i", "t", "a", "t", "i", "o", "n">>,
               <<"O", "c", "c", "u", "p", "a", "t", "i", "o", "n", "a", "l", " ", "T", "h", "e", "r", "a", "p", "y">>>>],
    [key |-> <<"c", "h", "r", "o", "n", "i", "c", " ", "d", "i", "s", "e", "a", "s", "e", " ", "m", "a", "n", "a", "g", "e", "m", "e", "n", "t">>,
     specs |-> <<<<"C", "h", "r", "o", "n", "i", "c", " ", "D", "i", "s", "e", "a", "s", "e", " ", "M", "a", "n", "a", "g", "e", "m", "e", "n", "t">>,
               <<"N", "u", "r", "s", "i", "n", "g", " ", "C", "a", "r", "e">>>>],
    [key |-> <<"c", "a", "r", "d", "i", "a", "c", " ", "c", "a", "r", "e">>,
     specs |-> <<<<"C", "a", "r", "d", "i", "a", "c", " ", "C", "a", "r", "e">>,
               <<"C", "a", "r", "d", "i", "o", "l", "o", "g", "y">>,
               <<"C", "a", "r", "d", "i", "o", "v", "a", "s", "c", "u", "l", "a", "r", " ", "A", "s", "s", "e", "s", "s", "m", "e", "n", "t">>>>],
    [key |-> <<"g", "e", "n", "e", "r", "a", "l", " ", "c", "h", "e", "c", "k", "u", "p">>,
     specs |-> <<<<"H", "o", "m", "e", " ", "H", "e", "a", "l", "t", "h", " ", "A", "i", "d", "e">>,
               <<"N", "u", "r", "s", "i", "n", "g", " ", "C", "a", "r", "e">>,
               <<"G", "e", "n", "e", "r", "a", "l", " ", "P", "r", "a", "c", "t", "i", "c", "e">>>>]
  >>

\* variant: only a specialization that contains the valid one is accepted
SpecsRelated_OneWay(profSpec, validSpec) ==
  Includes(profSpec, toLowerCase(validSpec))

\* profSpec.includes(validSpec.toLowerCase()) || validSpec.toLowerCase().includes(profSpec)
SpecsRelated(profSpec, validSpec) ==
  \/ Includes(profSpec, toLowerCase(validSpec))
  \/ Includes(toLowerCase(validSpec), profSpec)

\* validSpecs.some(validSpec => profSpecs.some(profSpec => ...))
HasValidSpec(validSpecs, profSpecs) ==
  \E v \in 1..Len(validSpecs) : \E p \in 1..Len(profSpecs) :
     SpecsRelated(profSpecs[p], validSpecs[v])

\* for (const [careType, validSpecs] of Object.entries(CARE_SPECIALTY_MAP)),
\* left at the first entry that matches
RECURSIVE RelatedLoop(_, _, _)
RelatedLoop(entries, careNeededLower, profSpecs) ==
  IF entries = <<>> THEN FALSE
  ELSE IF Includes(careNeededLower, Head(entries).key)
          /\ HasValidSpec(Head(entries).specs, profSpecs)
       THEN TRUE
       ELSE RelatedLoop(Tail(entries), careNeededLower, profSpecs)

checkSkillMatch(patientCareNeeded, professionalSpecializations) ==
  IF \/ patientCareNeeded = NullString \/ patientCareNeeded = <<>>
     \/ professionalSpecializations = NullList
     \/ Len(professionalSpecializations) = 0
  THEN FALSE
  ELSE LET careNeededLower == toLowerCase(patientCareNeeded)
           profSpecs == [i \in 1..Len(professionalSpecializations) |->
                           toLowerCase(professionalSpecializations[i])]
       IN IF \E i \in 1..Len(profSpecs) : profSpecs[i] = careNeededLower
          THEN TRUE
          ELSE RelatedLoop(CARE_SPECIALTY_MAP, careNeededLower, profSpecs)

(***************************************************************************)
(* Geo service.  Coordinates are integers in units of 0.0001 degree,       *)
(* distances integers in metres.                                           *)
(***************************************************************************)
NoCoordinate == 0     \* latitude / longitude that is null or undefined
NoArea == ""          \* area that is null or undefined

\* the default start; it has no area
OULU_CENTER == [lat |-> 650121, lng |-> 254651, area |-> NoArea]

JsNaN == [type |-> "NaN"]
JsInfinity == [type |-> "Infinity"]

\* a < b on JavaScript numbers: false whenever a is NaN
Less(a, b) ==
  /\ a.type = "number"
  /\ \/ b.type = "Infinity"
     \/ b.type = "number" /\ a.value < b.value

Abs(n) == IF n < 0 THEN 0 - n ELSE n

\* Haversine distance.  For two points on one meridian dLng = 0, a =
\* sin^2(dLat / 2) and c = |dLat|, so the distance is R * |dLat| in radians:
\* 6371 km * pi / 180 = 11.119 m per 0.0001 degree.  Every coordinate of the
\* model lies on the meridian of OULU_CENTER.
calculateDistance(lat1, lng1, lat2, lng2) ==
  CASE lng1 = lng2 -> (Abs(lat2 - lat1) * 11119) \div 1000

AVERAGE_SPEED_KMH == 30
MIN_BUFFER_MINUTES == 5

\* Math.ceil(a / b) for a >= 0, b > 0
CeilDiv(a, b) == (a + b - 1) \div b

\* variant: no buffer is added to the driving time
TravelMinutes_NoBuffer(distanceMetres) ==
  CeilDiv(distanceMetres * 13 * 60, AVERAGE_SPEED_KMH * 10000)

\* Math.ceil((distanceKm * 1.3 / AVERAGE_SPEED_KMH) * 60 + MIN_BUFFER_MINUTES),
\* the distance taken in metres: ceil(m * 1.3 * 60 / (30 * 1000) + 5)
TravelMinutes(distanceMetres) ==
  CeilDiv(distanceMetres * 13 * 60, AVERAGE_SPEED_KMH * 10000) + MIN_BUFFER_MINUTES

calculateTravelTime(lat1, lng1, lat2, lng2) ==
  TravelMinutes(calculateDistance(lat1, lng1, lat2, lng2))

\* the keys of ZONE_TRAVEL_TIME, in the order of the literal
Zones ==
  <<"Keskusta (City Center)",
    "Raksila",
    "Tuira",
    "Meri-Oulu",
    "Pateniemi",
    "Pohjois-Oulu",
    "Kontinkangas",
    "Kaakkuri",
    "Myllyoja">>

ZoneIndex(area) == CHOOSE i \in DOMAIN Zones : Zones[i] = area
IsZone(area) == \E i \in DOMAIN Zones : Zones[i] = area

\* ZONE_TRAVEL_TIME[from][to], minutes, rows and columns in the order of Zones
ZONE_TRAVEL_TIME ==
  <<<<5, 10, 12, 15, 20, 15, 12, 10, 8>>,
    <<10, 5, 8, 12, 18, 12, 10, 12, 8>>,
    <<12, 8, 5, 10, 15, 10, 12, 15, 12>>,
    <<15, 12, 10, 5, 8, 12, 18, 20, 18>>,
    <<20, 18, 15, 8, 5, 15, 22, 25, 22>>,
    <<15, 12, 10, 12, 15, 5, 10, 12, 12>>,
    <<12, 10, 12, 18, 22, 10, 5, 8, 10>>,
    <<10, 12, 15, 20, 25, 12, 8, 5, 12>>,
    <<8, 8, 12, 18, 22, 12, 10, 12, 5>>>>

\* fromZone[toArea] on a row of the table or on an inherited member
ZoneRowLookup(fromArea, toArea) ==
  IF IsZone(fromArea) /\ IsZone(toArea)
  THEN JsNumber(ZONE_TRAVEL_TIME[ZoneIndex(fromArea)][ZoneIndex(toArea)])
  ELSE IF toArea \in ObjectPrototypeKeys THEN JsInherited(toArea)
  ELSE JsUndefined

getZoneBasedTravelTime(fromArea, toArea) ==
  IF fromArea = NoArea \/ toArea = NoArea THEN JsNumber(15)
  ELSE IF ~IsZone(fromArea) /\ fromArea \notin ObjectPrototypeKeys THEN JsNumber(15)
  ELSE IF ZoneRowLookup(fromArea, toArea).type = "undefined" THEN JsNumber(15)
  ELSE ZoneRowLookup(fromArea, toArea)

\* variant: the coordinates are used only when a location carries no zone
CoordinatesPresent_UnlessZones(from, to) ==
  /\ from.lat # NoCoordinate /\ from.lng # NoCoordinate
  /\ to.lat # NoCoordinate /\ to.lng # NoCoordinate
  /\ (from.area = NoArea \/ to.area = NoArea)

\* from.lat && from.lng && to.lat && to.lng
CoordinatesPresent(from, to) ==
  /\ from.lat # NoCoordinate /\ from.lng # NoCoordinate
  /\ to.lat # NoCoordinate /\ to.lng # NoCoordinate

getTravelTimeBetweenLocations(from, to) ==
  IF CoordinatesPresent(from, to)
  THEN JsNumber(calculateTravelTime(from.lat, from.lng, to.lat, to.lng))
  ELSE getZoneBasedTravelTime(from.area, to.area)

\* patient.latitude && patient.longitude && currentLocation.lat && currentLocation.lng
BothHaveCoordinates(patient, currentLocation) ==
  /\ patient.latitude # NoCoordinate /\ patient.longitude # NoCoordinate
  /\ currentLocation.lat # NoCoordinate /\ currentLocation.lng # NoCoordinate

\* the distance the loop compares: metres between coordinates, else half the
\* zone travel time taken as kilometres
DistanceFrom(currentLocation, patient) ==
  IF BothHaveCoordinates(patient, currentLocation)
  THEN JsNumber(calculateDistance(currentLocation.lat, currentLocation.lng,
                                  patient.latitude, patient.longitude))
  ELSE LET time == getZoneBasedTravelTime(currentLocation.area, patient.area)
       IN IF time.type = "number" THEN JsNumber(time.value * 500) ELSE JsNaN

\* the for-loop over remaining: i is the next index to look at
RECURSIVE ScanNearest(_, _, _, _, _)
ScanNearest(remaining, currentLocation, i, nearestIndex, nearestDistance) ==
  IF i > Len(remaining) THEN nearestIndex
  ELSE IF Less(DistanceFrom(currentLocation, remaining[i]), nearestDistance)
       THEN ScanNearest(remaining, currentLocation, i + 1, i,
                        DistanceFrom(currentLocation, remaining[i]))
       ELSE ScanNearest(remaining, currentLocation, i + 1, nearestIndex, nearestDistance)

\* variant: the first remaining patient is taken, whatever the distances
NearestIndex_First(remaining, currentLocation) == 1

\* let nearestIndex = 0; let nearestDistance = Infinity; for (...) {...}
NearestIndex(remaining, currentLocation) ==
  ScanNearest(remaining, currentLocation, 1, 1, JsInfinity)

\* variant: the head of the list is removed, whichever index was chosen
Splice_Head(seq, index) == Tail(seq)

\* remaining.splice(index, 1)
Splice(seq, index) == SubSeq(seq, 1, index - 1) \o SubSeq(seq, index + 1, Len(seq))

\* the while-loop
RECURSIVE RouteLoop(_, _, _)
RouteLoop(remaining, currentLocation, optimized) ==
  IF Len(remaining) = 0 THEN optimized
  ELSE LET nearestIndex == NearestIndex(remaining, currentLocation)
           nearest == remaining[nearestIndex]
       IN RouteLoop(Splice(remaining, nearestIndex),
                    [lat |-> nearest.latitude, lng |-> nearest.longitude,
                     area |-> nearest.area],
                    Append(optimized, nearest))

NullPatients == <<[null |-> TRUE]>>    \* null in place of the patient list
NullLocation == [null |-> TRUE]        \* null in place of the start location

optimizeRouteByDistance(routePatients, startLocation) ==
  IF routePatients = NullPatients \/ Len(routePatients) = 0 THEN <<>>
  ELSE IF Len(routePatients) = 1 THEN routePatients
  ELSE RouteLoop(routePatients,
                 IF startLocation = NullLocation THEN OULU_CENTER ELSE startLocation,
                 <<>>)

(***************************************************************************)
(* The data store.                                                         *)
(***************************************************************************)
VARIABLES patients,          \* table patients
          working_hours,     \* table working_hours
          assignments,       \* table patient_assignments, in insertion order
          schedules,         \* table schedules, in insertion order
          nextId,            \* next primary key of patient_assignments
          response,          \* what the last request returned to its caller
          slots,             \* last value of smartAssignPatient's local `slots`
          bulk,              \* the bulk-assign request in progress, if any
          served,            \* manual-create, status, reassign and delete requests served
          accessed,          \* store calls made by the last handler or service call
          requests           \* smart-assign requests that run one store call at a time

vars == <<patients, working_hours, assignments, schedules, nextId, response,
          slots, bulk, served, accessed, requests>>

PatientIds == {"p1"}
UnknownPatientId == "p9"            \* an id with no row in patients
ProfessionalIds == {"d1", "d2"}
UnknownProfessionalId == "d9"       \* an id with no row in professionals
\* visit dates, in days since 1970-01-01 (a Thursday)
Monday == 7 * 2817 + 4              \* 2024-01-01
Sunday == Monday + 6                \* 2024-01-07
Dates == {Monday, Sunday}
Statuses == {"active", "completed", "reassigned", "cancelled"}

NoDate == 0        \* SQL NULL in a date column, undefined in a request
NoId == ""         \* a patient or professional id that is undefined in a request
NoTime == <<>>     \* SQL NULL in a time column
NoReason == ""     \* SQL NULL in assignment_reason

T0800 == <<"0", "8", ":", "0", "0">>
T0900 == <<"0", "9", ":", "0", "0">>
T1000 == <<"1", "0", ":", "0", "0">>
T1200 == <<"1", "2", ":", "0", "0">>
T1400 == <<"1", "4", ":", "0", "0">>
T1600 == <<"1", "6", ":", "0", "0">>

\* Store calls that may be rejected by the store (error value returned).
Faults == {"none", "patients.select", "working_hours.select",
           "patient_assignments.select", "patient_assignments.insert",
           "schedules.insert"}

\* new Date(visitDate).getDay(): 0 = Sunday .. 6 = Saturday (1970-01-01 was a Thursday)
getDay(date) == (date + 4) % 7

\* const dayOfWeek = dateObj.getDay() === 0 ? 7 : dateObj.getDay()
DayOfWeek(visitDate) == IF getDay(visitDate) = 0 THEN 7 ELSE getDay(visitDate)

MAX_PATIENTS_PER_DAY == 4

\* minutes between two consecutive suggested start times
SlotSpacing == 120

\* minutes that must fit between the candidate start and the end of the day
MinSlotLength == 60

\* variant: one hour per patient instead of two
SlotTime_Hourly(dayStart, count) == dayStart + count * 60

\* const slotTime = dayStart + (currentPatientCountOnDay * 120)
SlotTime(dayStart, count) == dayStart + count * SlotSpacing

\* variant: a visit that ends exactly at the end of the day no longer fits
SlotOverflows_Inclusive(slotTime, dayEnd) == slotTime + MinSlotLength >= dayEnd

\* if (slotTime + 60 > dayEnd)
SlotOverflows(slotTime, dayEnd) == slotTime + MinSlotLength > dayEnd

\* variant: the status of the stored assignments is not looked at
ActiveOnDay_AnyStatus(rows, professionalId, visitDate) ==
  LET match(a) == /\ a.professional_id = professionalId
                  /\ a.scheduled_visit_date = visitDate
  IN SelectSeq(rows, match)

\* variant: only assignments that still have their schedule entry are counted
ActiveOnDay_Scheduled(rows, professionalId, visitDate) ==
  LET match(a) == /\ a.professional_id = professionalId
                  /\ a.scheduled_visit_date = visitDate
                  /\ a.status = "active"
                  /\ \E i \in 1..Len(schedules) :
                        /\ schedules[i].professional_id = a.professional_id
                        /\ schedules[i].date = a.scheduled_visit_date
                        /\ schedules[i].start_time = a.scheduled_visit_time
  IN SelectSeq(rows, match)

\* .eq('professional_id', p).eq('scheduled_visit_date', d).eq('status', 'active')
ActiveOnDay(rows, professionalId, visitDate) ==
  LET match(a) == /\ a.professional_id = professionalId
                  /\ a.scheduled_visit_date = visitDate
                  /\ a.status = "active"
  IN SelectSeq(rows, match)

\* existingAssignments.filter(a => a.professional_id === p && a.scheduled_visit_date === d)
MemoryOnDay(existingAssignments, professionalId, visitDate) ==
  LET match(a) == /\ a.professional_id = professionalId
                  /\ a.scheduled_visit_date = visitDate
  IN SelectSeq(existingAssignments, match)

\* currentPatientCountOnDay = dbCount + memoryCount
PatientCountOnDay(rows, existingAssignments, professionalId, visitDate) ==
  Len(ActiveOnDay(rows, professionalId, visitDate))
    + Len(MemoryOnDay(existingAssignments, professionalId, visitDate))

\* the capacity test of the slot calculator
CapacityReached(count) == count >= MAX_PATIENTS_PER_DAY

CapacityReason(count) ==
  <<"Professional has ">> \o NumToString(count) \o <<"/">>
     \o NumToString(MAX_PATIENTS_PER_DAY) \o <<" patients">>

\* the rows the working_hours query selects
WorkingHoursOf(wh, professionalId, visitDate) ==
  {r \in wh : r.professional_id = professionalId /\ r.weekday = DayOfWeek(visitDate)}

\* whError of .single(): the call is rejected, or it selects no row or several;
\* new Date(undefined).getDay() is NaN, a weekday filter the store rejects
WorkingHoursError(wh, professionalId, visitDate, fault) ==
  \/ fault = "working_hours.select"
  \/ visitDate = NoDate
  \/ Cardinality(WorkingHoursOf(wh, professionalId, visitDate)) # 1

\* the store calls calculateAvailableTimeSlots makes
CallsOfSlotCalculator(wh, professionalId, visitDate, fault) ==
  {"working_hours.select"}
    \cup (IF WorkingHoursError(wh, professionalId, visitDate, fault)
          THEN {} ELSE {"patient_assignments.select"})

calculateAvailableTimeSlots(wh, rows, professionalId, visitDate, existingAssignments, fault) ==
  LET whRows == WorkingHoursOf(wh, professionalId, visitDate)
      whError == WorkingHoursError(wh, professionalId, visitDate, fault)
      workingHours == CHOOSE r \in whRows : TRUE
      assignError == fault = "patient_assignments.select"
      count == PatientCountOnDay(rows, existingAssignments, professionalId, visitDate)
      dayStart == ParseMinutes(workingHours.start_time)
      dayEnd == ParseMinutes(workingHours.end_time)
      slotTime == SlotTime(dayStart, count)
      suggestedTime == FormatTime(slotTime)
  IN IF whError
     THEN [available |-> FALSE, reason |-> <<"No working hours for this day">>,
           patientCountOnDay |-> 0, maxCapacity |-> 4]
     ELSE IF assignError
     THEN [available |-> FALSE, reason |-> <<"Error checking capacity">>,
           patientCountOnDay |-> 0, maxCapacity |-> 4]
     ELSE IF CapacityReached(count)
     THEN [available |-> FALSE, reason |-> CapacityReason(count),
           patientCountOnDay |-> count, maxCapacity |-> MAX_PATIENTS_PER_DAY]
     ELSE IF SlotOverflows(slotTime, dayEnd)
     THEN [available |-> FALSE, reason |-> <<"No time slots available">>,
           patientCountOnDay |-> count]
     ELSE [available |-> TRUE, suggestedTime |-> suggestedTime,
           slots |-> <<suggestedTime>>, patientCountOnDay |-> count,
           maxCapacity |-> MAX_PATIENTS_PER_DAY]

(***************************************************************************)
(* Assignment orchestrator.                                                *)
(***************************************************************************)
NoSlots == [available |-> FALSE, reason |-> <<"not computed">>]

\* err.message of the errors the store returns
PatientNotFound == <<"patient: no rows returned">>
StoreError(call) == <<"store error: ", call>>

AssignmentRow(id, patientId, professionalId, date, time, status, reason) ==
  [id |-> id, patient_id |-> patientId, professional_id |-> professionalId,
   scheduled_visit_date |-> date, scheduled_visit_time |-> time,
   status |-> status, assignment_reason |-> reason]

ScheduleRow(patientId, professionalId, date, startTime, endTime) ==
  [patient_id |-> patientId, professional_id |-> professionalId, date |-> date,
   start_time |-> startTime, end_time |-> endTime, status |-> "scheduled"]

\* end_time: addMinutes(slots.suggestedTime, getCareDuration(...)); minutes
\* that are not a number turn the sum into a string and the time into NaN:NaN
ScheduleEnd(startTime, patient) ==
  LET minutes == getCareDuration(patient.care_needed, patient.estimated_care_duration)
  IN IF minutes.type = "number"
     THEN addMinutes(startTime, minutes.value)
     ELSE <<"N", "a", "N", ":", "N", "a", "N">>

\* what smartAssignPatient returns when the schedules insert was rejected:
\* the returned error value is not looked at
AfterScheduleInsert(row, time, inserted) ==
  [success |-> TRUE, assignment |-> row, suggestedTime |-> time]

\* variant: the assignment row is inserted before the checks, without a time
Rejected_WriteFirst(st, sl, error) ==
  [store |-> [st EXCEPT !.assignments =
                           Append(@, [id |-> st.nextId, patient_id |-> "", professional_id |-> "",
                                      scheduled_visit_date |-> 0, scheduled_visit_time |-> <<>>,
                                      status |-> "active", assignment_reason |-> ""]),
                        !.nextId = @ + 1],
   slots |-> sl, result |-> [success |-> FALSE, error |-> error]]

\* a return of smartAssignPatient before its first write: the store is as it was
Rejected(st, sl, error) ==
  [store |-> st, slots |-> sl, result |-> [success |-> FALSE, error |-> error]]

\* variant: the caller's list is forwarded to the slot calculator
InBatchContext_Forward(callerList) == callerList

\* the existingAssignments argument smartAssignPatient hands to the slot
\* calculator: none (the parameter's default []), whatever list its caller keeps
InBatchContext(callerList) == <<>>

\* smartAssignPatient from the store st = [assignments, schedules, nextId];
\* yields the store afterwards, the returned result and the local `slots`.
\* callerList is the list the caller accumulates (bulkAssignPatients), <<>> otherwise.
smartAssignPatient(pts, wh, st, patientId, professionalId, date, callerList, fault) ==
  LET ptRows == {x \in pts : x.id = patientId}
      patientError == fault = "patients.select" \/ Cardinality(ptRows) # 1
      patient == CHOOSE x \in ptRows : TRUE
      sl == calculateAvailableTimeSlots(wh, st.assignments, professionalId, date,
                                        InBatchContext(callerList), fault)
      row == AssignmentRow(st.nextId, patientId, professionalId, date,
                           sl.suggestedTime, "active", NoReason)
      entry == ScheduleRow(patientId, professionalId, date, sl.suggestedTime,
                           ScheduleEnd(sl.suggestedTime, patient))
  IN IF patientError
     THEN Rejected(st, NoSlots, IF fault = "patients.select"
                                THEN StoreError(fault) ELSE PatientNotFound)
     ELSE IF ~sl.available
     THEN Rejected(st, sl, sl.reason)
     ELSE IF fault = "patient_assignments.insert"
     THEN Rejected(st, sl, StoreError(fault))
     ELSE [store |-> [assignments |-> Append(st.assignments, row),
                      schedules |-> IF fault = "schedules.insert"
                                    THEN st.schedules
                                    ELSE Append(st.schedules, entry),
                      nextId |-> st.nextId + 1],
           slots |-> sl,
           result |-> AfterScheduleInsert(row, sl.suggestedTime, fault # "schedules.insert")]

\* the store calls smartAssignPatient makes, the slot calculator's included
CallsOfSmartAssign(pts, wh, st, patientId, professionalId, date, callerList, fault) ==
  LET patientError == fault = "patients.select"
                        \/ Cardinality({x \in pts : x.id = patientId}) # 1
      sl == calculateAvailableTimeSlots(wh, st.assignments, professionalId, date,
                                        InBatchContext(callerList), fault)
  IN {"patients.select"}
       \cup (IF patientError THEN {}
             ELSE CallsOfSlotCalculator(wh, professionalId, date, fault)
                    \cup (IF ~sl.available THEN {}
                          ELSE {"patient_assignments.insert"}
                                 \cup (IF fault = "patient_assignments.insert"
                                       THEN {} ELSE {"schedules.insert"})))

Store == [assignments |-> assignments, schedules |-> schedules, nextId |-> nextId]

Idle == bulk.pc = "idle"
IdleBulk == [pc |-> "idle", items |-> <<>>, next |-> 1, results |-> <<>>,
             existingAssignments |-> <<>>, before |-> <<>>]

\* requests whose store calls may interleave with those of the other request
RequestIds == {1, 2}
NoRequest == [pc |-> "idle"]

\* The one patient of the store: a care type of the duration table and no
\* override, or an explicit override longer than the minimal slot length.
PatientRows ==
  {[id |-> "p1", care_needed |-> "Nursing Care", estimated_care_duration |-> NoDuration],
   [id |-> "p1", care_needed |-> "Wound Care", estimated_care_duration |-> 90]}

\* d1 works Monday 08:00-16:00 and Sunday 08:00-09:00; d2 has no working hours
WorkingHoursRows ==
  {[professional_id |-> "d1", weekday |-> 1, start_time |-> T0800, end_time |-> T1600],
   [professional_id |-> "d1", weekday |-> 7, start_time |-> T0800, end_time |-> T0900]}

Init ==
  /\ \E row \in PatientRows : patients = {row}
  /\ working_hours = WorkingHoursRows
  /\ assignments = <<>>
  /\ schedules = <<>>
  /\ nextId = 1
  /\ response = [op |-> "none"]
  /\ slots = NoSlots
  /\ bulk = IdleBulk
  /\ served = 0
  /\ accessed = {}
  /\ requests = [r \in RequestIds |-> NoRequest]

\* POST /smart-assign with all three fields present
AssignOne(patientId, professionalId, date, fault) ==
  LET out == smartAssignPatient(patients, working_hours, Store,
                                patientId, professionalId, date, <<>>, fault)
  IN /\ Idle
     /\ out.store.nextId <= MaxAssignments + 1
     /\ assignments' = out.store.assignments
     /\ schedules' = out.store.schedules
     /\ nextId' = out.store.nextId
     /\ slots' = out.slots
     /\ response' = [op |-> "assignOne", result |-> out.result]
     /\ UNCHANGED requests
     /\ accessed' = CallsOfSmartAssign(patients, working_hours, Store,
                                       patientId, professionalId, date, <<>>, fault)
     /\ UNCHANGED <<patients, working_hours, bulk, served>>

\* POST /smart-assign: the route's check of the body, then smartAssignPatient
SmartAssignRequest(body, fault) ==
  IF body.patient_id = NoId \/ body.professional_id = NoId \/ body.date = NoDate
  THEN /\ Idle
       /\ response' = [op |-> "assignOne", status |-> 400,
                       error |-> <<"patient_id, professional_id, and date are required">>]
       /\ UNCHANGED requests
       /\ accessed' = {}
       /\ UNCHANGED <<patients, working_hours, assignments, schedules, nextId,
                      slots, bulk, served>>
  ELSE AssignOne(body.patient_id, body.professional_id, body.date, fault)

\* GET /available-slots with both query fields present
AvailableSlot(professionalId, date, fault) ==
  /\ Idle
  /\ response' = [op |-> "availableSlot",
                  result |-> calculateAvailableTimeSlots(working_hours, assignments,
                                                         professionalId, date, <<>>, fault)]
  /\ UNCHANGED requests
  /\ accessed' = CallsOfSlotCalculator(working_hours, professionalId, date, fault)
  /\ UNCHANGED <<patients, working_hours, assignments, schedules, nextId, slots,
                 bulk, served>>

\* A call of the exported calculateAvailableTimeSlots with a list of in-batch
\* assignments; the response keeps the arguments next to the returned value.
SlotCall(professionalId, date, existingAssignments, fault) ==
  /\ Idle
  /\ response' = [op |-> "calculateAvailableTimeSlots",
                  professionalId |-> professionalId, visitDate |-> date,
                  existingAssignments |-> existingAssignments,
                  result |-> calculateAvailableTimeSlots(working_hours, assignments,
                                                         professionalId, date,
                                                         existingAssignments, fault)]
  /\ UNCHANGED requests
  /\ accessed' = CallsOfSlotCalculator(working_hours, professionalId, date, fault)
  /\ UNCHANGED <<patients, working_hours, assignments, schedules, nextId, slots,
                 bulk, served>>

(***************************************************************************)
(* POST /smart-assign, one step per store call: every await of             *)
(* smartAssignPatient hands control back to the event loop, so the store   *)
(* calls of two requests interleave.  working_hours is written by no       *)
(* request, so the two selects of the slot calculator are one step.        *)
(***************************************************************************)
Running(r, pc) == requests[r].pc = pc

\* the request arrives; activeBefore is the professional's load at that moment
RequestArrives(r, patientId, professionalId, date) ==
  /\ Idle
  /\ requests[r].pc \in {"idle", "done"}
  /\ requests' = [requests EXCEPT ![r] =
                    [pc |-> "patients.select", patient_id |-> patientId,
                     professional_id |-> professionalId, date |-> date,
                     activeBefore |-> Len(ActiveOnDay(assignments, professionalId, date))]]
  /\ UNCHANGED <<patients, working_hours, assignments, schedules, nextId, response,
                 slots, bulk, served, accessed>>

\* supabase.from('patients').select('*').eq('id', patientId).single()
RequestSelectsPatient(r) ==
  LET q == requests[r]
      ptRows == {x \in patients : x.id = q.patient_id}
  IN /\ Running(r, "patients.select")
     /\ requests' = [requests EXCEPT ![r] =
                       IF Cardinality(ptRows) # 1
                       THEN [q EXCEPT !.pc = "done"]
                              @@ [result |-> [success |-> FALSE, error |-> PatientNotFound]]
                       ELSE [q EXCEPT !.pc = "calculateAvailableTimeSlots"]
                              @@ [patient |-> CHOOSE x \in ptRows : TRUE]]
     /\ UNCHANGED <<patients, working_hours, assignments, schedules, nextId, response,
                    slots, bulk, served, accessed>>

\* const slots = await calculateAvailableTimeSlots(professionalId, date)
RequestCalculatesSlots(r) ==
  LET q == requests[r]
      sl == calculateAvailableTimeSlots(working_hours, assignments, q.professional_id,
                                        q.date, InBatchContext(<<>>), "none")
  IN /\ Running(r, "calculateAvailableTimeSlots")
     /\ requests' = [requests EXCEPT ![r] =
                       IF ~sl.available
                       THEN [q EXCEPT !.pc = "done"]
                              @@ [slots |-> sl,
                                  result |-> [success |-> FALSE, error |-> sl.reason]]
                       ELSE [q EXCEPT !.pc = "patient_assignments.insert"]
                              @@ [slots |-> sl]]
     /\ UNCHANGED <<patients, working_hours, assignments, schedules, nextId, response,
                    slots, bulk, served, accessed>>

\* supabase.from('patient_assignments').insert([assignmentData]).select().single()
RequestInsertsAssignment(r) ==
  LET q == requests[r]
      row == AssignmentRow(nextId, q.patient_id, q.professional_id, q.date,
                           q.slots.suggestedTime, "active", NoReason)
  IN /\ Running(r, "patient_assignments.insert")
     /\ nextId <= MaxAssignments
     /\ assignments' = Append(assignments, row)
     /\ nextId' = nextId + 1
     /\ requests' = [requests EXCEPT ![r] =
                       [q EXCEPT !.pc = "schedules.insert"] @@ [data |-> row]]
     /\ UNCHANGED <<patients, working_hours, schedules, response, slots, bulk,
                    served, accessed>>

\* supabase.from('schedules').insert([...]), then the return of the result
RequestInsertsSchedule(r) ==
  LET q == requests[r]
      entry == ScheduleRow(q.patient_id, q.professional_id, q.date,
                           q.slots.suggestedTime,
                           ScheduleEnd(q.slots.suggestedTime, q.patient))
  IN /\ Running(r, "schedules.insert")
     /\ schedules' = Append(schedules, entry)
     /\ requests' = [requests EXCEPT ![r] =
                       [q EXCEPT !.pc = "done"]
                         @@ [result |-> AfterScheduleInsert(q.data, q.slots.suggestedTime, TRUE)]]
     /\ UNCHANGED <<patients, working_hours, assignments, nextId, response, slots,
                    bulk, served, accessed>>

(***************************************************************************)
(* Bulk assignment: one step per item of the for-loop.                     *)
(***************************************************************************)
BatchItem(patientId, professionalId, date) ==
  [patient_id |-> patientId, professional_id |-> professionalId, date |-> date]

\* the items a bulk request is built from: one that can succeed, one whose
\* patient is unknown, one whose professional has no working hours
BatchItems == {BatchItem("p1", "d1", Monday), BatchItem(UnknownPatientId, "d1", Monday),
               BatchItem("p1", "d2", Monday)}

Batches == UNION {[1..n -> BatchItems] : n \in 1..MaxBatch}

\* { ...assignment, ...result }
Merge(a, b) ==
  [k \in DOMAIN a \cup DOMAIN b |-> IF k \in DOMAIN b THEN b[k] ELSE a[k]]

\* variant: the loop is left at the first failed item
AfterItem_StopOnFailure(b, item, result) ==
  IF result.success
  THEN [b EXCEPT !.results = Append(@, Merge(item, result)),
                 !.existingAssignments =
                    Append(@, [professional_id |-> item.professional_id,
                               scheduled_visit_date |-> item.date,
                               scheduled_visit_time |-> result.suggestedTime]),
                 !.next = @ + 1]
  ELSE [b EXCEPT !.results = Append(@, Merge(item, result)),
                 !.next = Len(b.items) + 1]

\* the loop body after smartAssignPatient returned: push the merged entry,
\* remember a success, go on with the next item
AfterItem(b, item, result) ==
  [b EXCEPT !.results = Append(@, Merge(item, result)),
            !.existingAssignments =
               IF result.success
               THEN Append(@, [professional_id |-> item.professional_id,
                               scheduled_visit_date |-> item.date,
                               scheduled_visit_time |-> result.suggestedTime])
               ELSE @,
            !.next = @ + 1]

CountSuccess(results) == Len(SelectSeq(results, LAMBDA r : r.success))
CountFailed(results) == Len(SelectSeq(results, LAMBDA r : ~r.success))

\* what bulkAssignPatients returns
BulkSummary(b) ==
  [total |-> Len(b.items), successful |-> CountSuccess(b.results),
   failed |-> CountFailed(b.results), results |-> b.results]

\* POST /bulk-assign: the route's check, then bulkAssignPatients starts
BulkStart(items) ==
  /\ Idle
  /\ IF Len(items) = 0
     THEN /\ response' = [op |-> "assignBulk", status |-> 400]
          /\ UNCHANGED bulk
     ELSE /\ bulk' = [pc |-> "running", items |-> items, next |-> 1, results |-> <<>>,
                      existingAssignments |-> <<>>, before |-> assignments]
          /\ response' = [op |-> "none"]
  /\ UNCHANGED requests
  /\ accessed' = {}
  /\ UNCHANGED <<patients, working_hours, assignments, schedules, nextId, slots, served>>

BulkItem(fault) ==
  /\ bulk.pc = "running"
  /\ bulk.next <= Len(bulk.items)
  /\ LET item == bulk.items[bulk.next]
         out == smartAssignPatient(patients, working_hours, Store, item.patient_id,
                                   item.professional_id, item.date,
                                   bulk.existingAssignments, fault)
     IN /\ out.store.nextId <= MaxAssignments + 1
        /\ assignments' = out.store.assignments
        /\ schedules' = out.store.schedules
        /\ nextId' = out.store.nextId
        /\ slots' = out.slots
        /\ bulk' = AfterItem(bulk, item, out.result)
        /\ UNCHANGED requests
        /\ accessed' = CallsOfSmartAssign(patients, working_hours, Store, item.patient_id,
                                          item.professional_id, item.date,
                                          bulk.existingAssignments, fault)
  /\ UNCHANGED <<patients, working_hours, response, served>>

BulkFinish ==
  /\ bulk.pc = "running"
  /\ bulk.next > Len(bulk.items)
  /\ response' = [op |-> "assignBulk", status |-> 200, result |-> BulkSummary(bulk)]
  /\ bulk' = IdleBulk
  /\ UNCHANGED <<patients, working_hours, assignments, schedules, nextId, slots, served,
                 accessed, requests>>

(***************************************************************************)
(* The other routes of /api/assignments.                                   *)
(***************************************************************************)
RowIds == 1..MaxAssignments

\* rows.map(r => r.id === id ? patch(r) : r)   (update ... .eq('id', id))
UpdateWhereId(rows, id, status) ==
  [i \in 1..Len(rows) |-> IF rows[i].id = id
                          THEN [rows[i] EXCEPT !.status = status]
                          ELSE rows[i]]

HasId(rows, id) == \E i \in 1..Len(rows) : rows[i].id = id
RowWithId(rows, id) == rows[CHOOSE i \in 1..Len(rows) : rows[i].id = id]

\* request bodies of the manual creation route
ManualBodies ==
  {[patient_id |-> "p1", professional_id |-> "d1", scheduled_visit_date |-> Monday,
    scheduled_visit_time |-> T0900, status |-> st] : st \in {"active", "completed"}}

\* POST / : the body is inserted as it is
ManualCreate(body, fault) ==
  /\ Idle
  /\ served < MaxAdmin
  /\ served' = served + 1
  /\ IF fault = "patient_assignments.insert"
     THEN /\ response' = [op |-> "create", status |-> 500]
          /\ UNCHANGED <<assignments, nextId>>
     ELSE /\ nextId <= MaxAssignments
          /\ LET row == AssignmentRow(nextId, body.patient_id, body.professional_id,
                                      body.scheduled_visit_date, body.scheduled_visit_time,
                                      body.status, NoReason)
             IN /\ assignments' = Append(assignments, row)
                /\ response' = [op |-> "create", status |-> 201, data |-> row]
          /\ nextId' = nextId + 1
  /\ UNCHANGED requests
  /\ accessed' = {"patient_assignments.insert"}
  /\ UNCHANGED <<patients, working_hours, schedules, slots, bulk>>

\* PATCH /:id/status
UpdateStatus(id, status, fault) ==
  /\ Idle
  /\ served < MaxAdmin
  /\ served' = served + 1
  /\ IF status \notin {"active", "completed", "reassigned", "cancelled"}
     THEN /\ response' = [op |-> "status", status |-> 400]
          /\ UNCHANGED assignments
     ELSE IF fault = "patient_assignments.update" \/ ~HasId(assignments, id)
     THEN /\ response' = [op |-> "status", status |-> 500]
          /\ UNCHANGED assignments
     ELSE /\ assignments' = UpdateWhereId(assignments, id, status)
          /\ response' = [op |-> "status", status |-> 200,
                          data |-> RowWithId(assignments', id)]
  /\ UNCHANGED requests
  /\ accessed' = IF status \notin {"active", "completed", "reassigned", "cancelled"}
                 THEN {} ELSE {"patient_assignments.update"}
  /\ UNCHANGED <<patients, working_hours, schedules, nextId, slots, bulk>>

\* POST /:id/reassign ; faults is the set of its store calls that are rejected.
\* patient_assignments.professional_id references professionals (the embedded
\* select of GET / relies on that key), so the insert of a row for an unknown
\* professional is rejected by the store.
Reassign(oldAssignmentId, newProfessionalId, reason, faults) ==
  LET afterUpdate == IF "patient_assignments.update" \in faults
                     THEN assignments
                     ELSE UpdateWhereId(assignments, oldAssignmentId, "reassigned")
      fetchError == "patient_assignments.select" \in faults
                      \/ ~HasId(afterUpdate, oldAssignmentId)
      oldAssignment == RowWithId(afterUpdate, oldAssignmentId)
      row == AssignmentRow(nextId, oldAssignment.patient_id, newProfessionalId,
                           NoDate, NoTime, "active",
                           IF reason = NoReason THEN "Reassignment" ELSE reason)
      insertError == "patient_assignments.insert" \in faults
                       \/ newProfessionalId \notin ProfessionalIds
  IN /\ Idle
     /\ served < MaxAdmin
     /\ served' = served + 1
     /\ IF fetchError \/ insertError
        THEN /\ assignments' = afterUpdate
             /\ response' = [op |-> "reassign", status |-> 500]
             /\ UNCHANGED nextId
        ELSE /\ nextId <= MaxAssignments
             /\ assignments' = Append(afterUpdate, row)
             /\ response' = [op |-> "reassign", status |-> 200, data |-> row]
             /\ nextId' = nextId + 1
     /\ UNCHANGED requests
     /\ accessed' = {"patient_assignments.update", "patient_assignments.select"}
                      \cup (IF fetchError THEN {} ELSE {"patient_assignments.insert"})
     /\ UNCHANGED <<patients, working_hours, schedules, slots, bulk>>

\* DELETE /:id
Delete(id, fault) ==
  /\ Idle
  /\ served < MaxAdmin
  /\ served' = served + 1
  /\ IF fault = "patient_assignments.delete"
     THEN /\ response' = [op |-> "delete", status |-> 500]
          /\ UNCHANGED assignments
     ELSE /\ assignments' = SelectSeq(assignments, LAMBDA r : r.id # id)
          /\ response' = [op |-> "delete", status |-> 200]
  /\ UNCHANGED requests
  /\ accessed' = {"patient_assignments.delete"}
  /\ UNCHANGED <<patients, working_hours, schedules, nextId, slots, bulk>>

(***************************************************************************)
(* Routes of the schedules table.  The key of a schedule entry is          *)
(* generated by the store; an entry is addressed by its position.          *)
(***************************************************************************)
ScheduleBodies ==
  {ScheduleRow("p1", "d1", Monday, T1200, T1400),
   ScheduleRow("p1", "d1", Sunday, T0800, T0900)}

ScheduleChanges ==
  {[start_time |-> T1400, end_time |-> T1600], [status |-> "cancelled"],
   [date |-> Sunday]}

\* POST / : the body is inserted as it is
ScheduleCreate(body) ==
  /\ Idle
  /\ served < MaxAdmin
  /\ served' = served + 1
  /\ schedules' = Append(schedules, body)
  /\ response' = [op |-> "scheduleCreate", status |-> 201, data |-> body]
  /\ accessed' = {"schedules.insert"}
  /\ UNCHANGED <<patients, working_hours, assignments, nextId, slots, bulk, requests>>

\* PUT /:id : the fields of the body replace those of the entry
ScheduleUpdate(id, body) ==
  /\ Idle
  /\ served < MaxAdmin
  /\ served' = served + 1
  /\ IF id \notin DOMAIN schedules
     THEN /\ response' = [op |-> "scheduleUpdate", status |-> 500]
          /\ UNCHANGED schedules
     ELSE /\ schedules' = [schedules EXCEPT ![id] = Merge(@, body)]
          /\ response' = [op |-> "scheduleUpdate", status |-> 200,
                          data |-> Merge(schedules[id], body)]
  /\ accessed' = {"schedules.update"}
  /\ UNCHANGED <<patients, working_hours, assignments, nextId, slots, bulk, requests>>

\* DELETE /:id
ScheduleDelete(id) ==
  /\ Idle
  /\ served < MaxAdmin
  /\ served' = served + 1
  /\ schedules' = [i \in 1..(Len(schedules) - (IF id \in DOMAIN schedules THEN 1 ELSE 0))
                     |-> IF i < id THEN schedules[i] ELSE schedules[i + 1]]
  /\ response' = [op |-> "scheduleDelete", status |-> 200]
  /\ accessed' = {"schedules.delete"}
  /\ UNCHANGED <<patients, working_hours, assignments, nextId, slots, bulk, requests>>

(***************************************************************************)
(* Calls of the pure service functions.                                    *)
(***************************************************************************)
\* care needs handed to checkSkillMatch
CareInputs ==
  {NullString,
   <<>>,
   <<"w", "o", "u", "n", "d", " ", "c", "a", "r", "e">>,
   <<"W", "O", "U", "N", "D", " ", "C", "A", "R", "E">>,
   <<"w", "o", "u", "n", "d", " ", "d", "r", "e", "s", "s", "i", "n", "g">>,
   <<"m", "e", "d", "i", "c", "a", "t", "i", "o", "n", " ", "a", "d", "m", "i", "n", "i", "s", "t", "r", "a", "t", "i", "o", "n">>,
   <<"p", "h", "y", "s", "i", "c", "a", "l", " ", "t", "h", "e", "r", "a", "p", "y">>,
   <<"e", "l", "d", "e", "r", "l", "y", " ", "c", "a", "r", "e">>,
   <<"C", "a", "r", "d", "i", "o", "l", "o", "g", "y">>,
   <<"d", "a", "i", "l", "y", " ", "w", "o", "u", "n", "d", " ", "c", "a", "r", "e", " ", "v", "i", "s", "i", "t">>,
   <<"m", "a", "s", "s", "a", "g", "e">>,
   <<"c", "a", "r", "e">>}

\* specialization lists handed to checkSkillMatch
SpecializationInputs ==
  {NullList,
   <<>>,
   <<<<"W", "o", "u", "n", "d", " ", "C", "a", "r", "e">>>>,
   <<<<"w", "o", "u", "n", "d", " ", "c", "a", "r", "e">>>>,
   <<<<"C", "a", "r", "d", "i", "o", "l", "o", "g", "y">>>>,
   <<<<"P", "o", "s", "t", "-", "o", "p", "e", "r", "a", "t", "i", "v", "e", " ", "C", "a", "r", "e">>>>,
   <<<<"N", "u", "r", "s", "i", "n", "g", " ", "C", "a", "r", "e">>>>,
   <<<<"M", "e", "d", "i", "c", "a", "t", "i", "o", "n", " ", "M", "a", "n", "a", "g", "e", "m", "e", "n", "t">>>>,
   <<<<"R", "e", "h", "a", "b", "i", "l", "i", "t", "a", "t", "i", "o", "n">>>>,
   <<<<"E", "l", "d", "e", "r", "l", "y", " ", "C", "a", "r", "e">>, <<"H", "o", "m", "e", " ", "H", "e", "a", "l", "t", "h", " ", "A", "i", "d", "e">>>>,
   <<<<"N", "u", "r", "s", "i", "n", "g">>>>,
   <<<<"S", "e", "n", "i", "o", "r", " ", "W", "o", "u", "n", "d", " ", "C", "a", "r", "e", " ", "S", "p", "e", "c", "i", "a", "l", "i", "s", "t">>>>,
   <<<<>>>>,
   <<<<"M", "a", "s", "s", "a", "g", "e">>>>,
   <<<<"M", "a", "s", "s", "a", "g", "e">>, <<"C", "a", "r", "d", "i", "o", "l", "o", "g", "y">>>>}

CheckSkillMatch(patientCareNeeded, professionalSpecializations) ==
  /\ Idle
  /\ response' = [op |-> "checkSkillMatch",
                  patientCareNeeded |-> patientCareNeeded,
                  professionalSpecializations |-> professionalSpecializations,
                  result |-> checkSkillMatch(patientCareNeeded,
                                             professionalSpecializations)]
  /\ UNCHANGED requests
  /\ accessed' = {}
  /\ UNCHANGED <<patients, working_hours, assignments, schedules, nextId, slots,
                 bulk, served>>

\* care types handed to getCareDuration: the keys of the table, other
\* free-text care types, and names of Object.prototype members
CareTypeInputs ==
  CARE_DURATION_KEYS
    \cup {"Wound Care", "Unknown Care Type", "wound dressing", "", "constructor",
          "toString"}

\* overrides handed to getCareDuration: none, a negative one, positive ones
OverrideInputs == {NoDuration, 0 - 5, 90, 120}

GetCareDuration(careNeeded, estimatedCareDuration) ==
  /\ Idle
  /\ response' = [op |-> "getCareDuration", careNeeded |-> careNeeded,
                  estimatedCareDuration |-> estimatedCareDuration,
                  result |-> getCareDuration(careNeeded, estimatedCareDuration)]
  /\ UNCHANGED requests
  /\ accessed' = {}
  /\ UNCHANGED <<patients, working_hours, assignments, schedules, nextId, slots,
                 bulk, served>>

\* patients of a visit list: on the meridian of the city center, north and
\* south of it, and one without coordinates
RoutePatient(id, latitude, longitude, area) ==
  [id |-> id, latitude |-> latitude, longitude |-> longitude, area |-> area]

RoutePool ==
  {RoutePatient(1, OULU_CENTER.lat + 100, OULU_CENTER.lng, "Tuira"),
   RoutePatient(2, OULU_CENTER.lat - 200, OULU_CENTER.lng, "Kaakkuri"),
   RoutePatient(3, OULU_CENTER.lat + 250, OULU_CENTER.lng, "Tuira"),
   RoutePatient(4, OULU_CENTER.lat + 400, OULU_CENTER.lng, "Pateniemi"),
   RoutePatient(5, NoCoordinate, NoCoordinate, "Raksila")}

\* visit lists: up to MaxRoute different patients of the pool, in any order
RouteLists ==
  UNION {{list \in [1..n -> RoutePool] :
            \A i \in 1..n, j \in 1..n : i # j => list[i] # list[j]} : n \in 0..MaxRoute}

StartLocations ==
  {NullLocation,
   [lat |-> OULU_CENTER.lat - 50, lng |-> OULU_CENTER.lng, area |-> "Raksila"]}

OptimizeRoute(routePatients, startLocation) ==
  /\ Idle
  /\ response' = [op |-> "optimizeRoute", patients |-> routePatients,
                  startLocation |-> startLocation,
                  result |-> optimizeRouteByDistance(routePatients, startLocation)]
  /\ UNCHANGED requests
  /\ accessed' = {}
  /\ UNCHANGED <<patients, working_hours, assignments, schedules, nextId, slots,
                 bulk, served>>

\* patients of the routes that fall back on zones: two at the same distance
\* north and south of the city center, one farther away, and patients without
\* coordinates in a zone of the table, in an unknown zone and in a zone named
\* like a member of Object.prototype
ZonePool ==
  {RoutePatient(1, OULU_CENTER.lat + 100, OULU_CENTER.lng, "Tuira"),
   RoutePatient(2, OULU_CENTER.lat - 100, OULU_CENTER.lng, "Raksila"),
   RoutePatient(3, OULU_CENTER.lat + 900, OULU_CENTER.lng, "Pateniemi"),
   RoutePatient(4, NoCoordinate, NoCoordinate, "Pateniemi"),
   RoutePatient(5, NoCoordinate, NoCoordinate, "InvalidZone"),
   RoutePatient(6, NoCoordinate, NoCoordinate, "constructor")}

ZoneLists ==
  UNION {{list \in [1..n -> ZonePool] :
            \A i \in 1..n, j \in 1..n : i # j => list[i] # list[j]} : n \in 0..MaxRoute}

ZoneStartLocations ==
  {NullLocation,
   [lat |-> NoCoordinate, lng |-> NoCoordinate, area |-> "Raksila"]}

\* destinations of the travel-time calculation: north of the city center in
\* steps of 0.001 degree (111 m)
MaxSteps == 60
TravelLatitudes == {OULU_CENTER.lat + 10 * k : k \in 0..MaxSteps}

CalculateTravelTime(lat1, lng1, lat2, lng2) ==
  /\ Idle
  /\ response' = [op |-> "travelTime",
                  distance |-> calculateDistance(lat1, lng1, lat2, lng2),
                  result |-> calculateTravelTime(lat1, lng1, lat2, lng2)]
  /\ UNCHANGED requests
  /\ accessed' = {}
  /\ UNCHANGED <<patients, working_hours, assignments, schedules, nextId, slots,
                 bulk, served>>

\* locations handed to getTravelTimeBetweenLocations: with coordinates and a
\* zone, with coordinates only, with a zone only, with neither, with half a
\* coordinate; a field that is undefined is NoCoordinate / NoArea
Location(lat, lng, area) == [lat |-> lat, lng |-> lng, area |-> area]

Locations ==
  {Location(OULU_CENTER.lat, OULU_CENTER.lng, "Keskusta (City Center)"),
   Location(OULU_CENTER.lat + 179, OULU_CENTER.lng, "Meri-Oulu"),
   Location(OULU_CENTER.lat + 600, OULU_CENTER.lng, "Pateniemi"),
   Location(OULU_CENTER.lat - 300, OULU_CENTER.lng, NoArea),
   Location(OULU_CENTER.lat - 40, OULU_CENTER.lng, "InvalidZone"),
   Location(NoCoordinate, NoCoordinate, "Keskusta (City Center)"),
   Location(NoCoordinate, NoCoordinate, "Meri-Oulu"),
   Location(NoCoordinate, NoCoordinate, "InvalidZone"),
   Location(NoCoordinate, NoCoordinate, NoArea),
   Location(OULU_CENTER.lat + 50, NoCoordinate, "Tuira"),
   Location(NoCoordinate, OULU_CENTER.lng, "Kaakkuri")}

GetTravelTimeBetweenLocations(from, to) ==
  /\ Idle
  /\ response' = [op |-> "travelTimeBetween", from |-> from, to |-> to,
                  result |-> getTravelTimeBetweenLocations(from, to)]
  /\ UNCHANGED requests
  /\ accessed' = {}
  /\ UNCHANGED <<patients, working_hours, assignments, schedules, nextId, slots,
                 bulk, served>>

\* zone names handed to getZoneBasedTravelTime: the zones of the table, names
\* that are not in it, names of Object.prototype members, and null (NoArea)
AreaInputs ==
  {Zones[i] : i \in DOMAIN Zones}
    \cup {"InvalidZone", "AnotherInvalidZone", "constructor", "toString", NoArea}

GetZoneBasedTravelTime(fromArea, toArea) ==
  /\ Idle
  /\ response' = [op |-> "zoneTravelTime", fromArea |-> fromArea, toArea |-> toArea,
                  result |-> getZoneBasedTravelTime(fromArea, toArea)]
  /\ UNCHANGED requests
  /\ accessed' = {}
  /\ UNCHANGED <<patients, working_hours, assignments, schedules, nextId, slots,
                 bulk, served>>

(***************************************************************************)
(* Specifications.                                                         *)
(***************************************************************************)
AssignRequests ==
  \E p \in PatientIds \cup {UnknownPatientId}, d \in ProfessionalIds,
     day \in Dates, f \in Faults : AssignOne(p, d, day, f)

SlotFaults == {"none", "working_hours.select", "patient_assignments.select"}

SlotQueries ==
  \E d \in ProfessionalIds, day \in Dates, f \in SlotFaults : AvailableSlot(d, day, f)

\* single assignments that fill the store around the other requests
PlainAssign == \E day \in Dates : AssignOne("p1", "d1", day, "none")

BulkFaults == {"none", "patient_assignments.insert"}

BulkRequests ==
  \/ \E items \in Batches \cup {<<>>} : BulkStart(items)
  \/ \E f \in BulkFaults : BulkItem(f)
  \/ BulkFinish

ReassignFaults == SUBSET {"patient_assignments.update", "patient_assignments.select",
                          "patient_assignments.insert"}

RouteRequests ==
  \/ \E body \in ManualBodies, f \in {"none", "patient_assignments.insert"} :
        ManualCreate(body, f)
  \/ \E id \in RowIds, st \in Statuses \cup {"pending"},
        f \in {"none", "patient_assignments.update"} : UpdateStatus(id, st, f)
  \/ \E id \in RowIds, d \in ProfessionalIds \cup {UnknownProfessionalId},
        reason \in {NoReason, "on leave"}, fs \in ReassignFaults :
        Reassign(id, d, reason, fs)
  \/ \E id \in RowIds, f \in {"none", "patient_assignments.delete"} : Delete(id, f)

Next == AssignRequests

\* smart assignment, one request at a time, any store call may fail
Spec == Init /\ [][Next]_vars

\* rows of patient_assignments the slot queries run against: counted ones
\* (d1, Monday, active) and ones of another status, professional or date
StoredKinds ==
  <<[professional_id |-> "d1", scheduled_visit_date |-> Monday, status |-> "active"],
    [professional_id |-> "d1", scheduled_visit_date |-> Monday, status |-> "completed"],
    [professional_id |-> "d2", scheduled_visit_date |-> Monday, status |-> "active"],
    [professional_id |-> "d1", scheduled_visit_date |-> Sunday, status |-> "active"]>>

\* entries of the caller's in-batch list: { professional_id, scheduled_visit_date,
\* scheduled_visit_time }
InBatchEntry(professionalId, date) ==
  [professional_id |-> professionalId, scheduled_visit_date |-> date,
   scheduled_visit_time |-> T0800]

InBatchLists ==
  {<<>>,
   <<InBatchEntry("d1", Monday)>>,
   <<InBatchEntry("d1", Monday), InBatchEntry("d1", Monday)>>,
   <<InBatchEntry("d1", Monday), InBatchEntry("d2", Monday)>>,
   <<InBatchEntry("d1", Sunday), InBatchEntry("d1", Monday)>>,
   <<InBatchEntry("d2", Monday), InBatchEntry("d1", Sunday)>>}

\* the store holds any rows of patient_assignments (POST / inserts any body),
\* here grouped by kind
InitSlots ==
  /\ patients = {[id |-> "p1", care_needed |-> "Nursing Care",
                   estimated_care_duration |-> NoDuration]}
  /\ working_hours = WorkingHoursRows
  /\ \E n \in 0..MaxAssignments : \E kinds \in [1..n -> DOMAIN StoredKinds] :
        /\ \A i \in 1..n, j \in 1..n : i < j => kinds[i] <= kinds[j]
        /\ assignments = [i \in 1..n |->
                            AssignmentRow(i, "p1", StoredKinds[kinds[i]].professional_id,
                                          StoredKinds[kinds[i]].scheduled_visit_date, T0900,
                                          StoredKinds[kinds[i]].status, NoReason)]
        /\ nextId = n + 1
  /\ schedules = <<>>
  /\ response = [op |-> "none"]
  /\ slots = NoSlots
  /\ bulk = IdleBulk
  /\ served = 0
  /\ accessed = {}
  /\ requests = [r \in RequestIds |-> NoRequest]

SlotCalls ==
  \E d \in ProfessionalIds, day \in Dates, list \in InBatchLists, f \in SlotFaults :
     SlotCall(d, day, list, f)

NextSlots == SlotQueries \/ SlotCalls

\* slot queries and slot calculations over any content of patient_assignments
SpecSlots == InitSlots /\ [][NextSlots]_vars

NextBulk == PlainAssign \/ BulkRequests

\* bulk assignment over a store filled by single assignments
SpecBulk == Init /\ [][NextBulk]_vars

\* request bodies and batch items in which any of the three fields may be undefined
LooseItems ==
  {BatchItem(p, d, day) : p \in {"p1", NoId}, d \in {"d1", NoId}, day \in {Monday, NoDate}}

LooseBatches == UNION {[1..n -> LooseItems] : n \in 1..MaxBatch}

NextValidation ==
  \/ \E body \in LooseItems : SmartAssignRequest(body, "none")
  \/ \E items \in LooseBatches : BulkStart(items)
  \/ BulkItem("none")
  \/ BulkFinish

\* smart-assign and bulk-assign requests whose fields may be missing
SpecValidation == Init /\ [][NextValidation]_vars

NextFaults ==
  \/ \E f \in Faults : AssignOne("p1", "d1", Monday, f)
  \/ \E f \in SlotFaults : AvailableSlot("d1", Monday, f)
  \/ \E items \in [1..MaxBatch -> {BatchItem("p1", "d1", Monday)}] : BulkStart(items)
  \/ \E f \in Faults : BulkItem(f)
  \/ BulkFinish

\* slot query, single and bulk assignment for one professional and one day,
\* any store call may fail
SpecFaults == Init /\ [][NextFaults]_vars

NextSkill ==
  \E care \in CareInputs, list \in SpecializationInputs : CheckSkillMatch(care, list)

\* calls of checkSkillMatch
SpecSkill == Init /\ [][NextSkill]_vars

NextDuration ==
  \E care \in CareTypeInputs, override \in OverrideInputs :
     GetCareDuration(care, override)

\* calls of getCareDuration
SpecDuration == Init /\ [][NextDuration]_vars

NextRoute ==
  \E list \in RouteLists \cup {NullPatients}, start \in StartLocations :
     OptimizeRoute(list, start)

\* calls of optimizeRouteByDistance
SpecRoute == Init /\ [][NextRoute]_vars

NextTravel ==
  \E lat \in TravelLatitudes :
     CalculateTravelTime(OULU_CENTER.lat, OULU_CENTER.lng, lat, OULU_CENTER.lng)

\* calls of calculateTravelTime
SpecTravel == Init /\ [][NextTravel]_vars

NextLocations ==
  \E from \in Locations, to \in Locations : GetTravelTimeBetweenLocations(from, to)

\* calls of getTravelTimeBetweenLocations
SpecLocations == Init /\ [][NextLocations]_vars

NextZones ==
  \E a \in AreaInputs, b \in AreaInputs : GetZoneBasedTravelTime(a, b)

\* calls of getZoneBasedTravelTime
SpecZones == Init /\ [][NextZones]_vars

NextConcurrent ==
  \E r \in RequestIds :
    \/ RequestArrives(r, "p1", "d1", Monday)
    \/ RequestSelectsPatient(r)
    \/ RequestCalculatesSlots(r)
    \/ RequestInsertsAssignment(r)
    \/ RequestInsertsSchedule(r)

\* two smart-assign requests for d1 on Monday whose store calls interleave
SpecConcurrent == Init /\ [][NextConcurrent]_vars

NextLifecycle ==
  \/ AssignOne("p1", "d1", Monday, "none")
  \/ \E id \in RowIds, status \in {"completed", "cancelled"} :
        UpdateStatus(id, status, "none")

\* smart assignments and completions or cancellations for d1 on Monday, one
\* request at a time
SpecLifecycle == Init /\ [][NextLifecycle]_vars

NextSchedules ==
  \/ AssignOne("p1", "d1", Monday, "none")
  \/ AvailableSlot("d1", Monday, "none")
  \/ \E body \in ScheduleBodies : ScheduleCreate(body)
  \/ \E id \in RowIds, body \in ScheduleChanges : ScheduleUpdate(id, body)
  \/ \E id \in RowIds : ScheduleDelete(id)

\* smart assignments and slot queries for d1 on Monday next to requests that
\* create, change and delete schedule entries
SpecSchedules == Init /\ [][NextSchedules]_vars

NextZoneRoute ==
  \E list \in ZoneLists, start \in ZoneStartLocations : OptimizeRoute(list, start)

\* calls of optimizeRouteByDistance with patients and starts lacking coordinates
SpecZoneRoute == Init /\ [][NextZoneRoute]_vars

NextRoutes == AssignOne("p1", "d1", Monday, "none") \/ RouteRequests

\* the assignment routes: smart assignment, manual creation, status update,
\* reassignment and deletion, one request at a time
SpecRoutes == Init /\ [][NextRoutes]_vars

(***************************************************************************)
(* Properties.                                                             *)
(***************************************************************************)
RequestPatients == PatientIds \cup {UnknownPatientId}

PatientOf(patientId) == CHOOSE x \in patients : x.id = patientId

DurationOf(patientId) ==
  getCareDuration(PatientOf(patientId).care_needed,
                  PatientOf(patientId).estimated_care_duration).value

\* end of the working-hours window of a professional on the weekday of a date
DayEndOf(professionalId, date) ==
  ParseMinutes((CHOOSE r \in working_hours :
                   r.professional_id = professionalId
                     /\ r.weekday = DayOfWeek(date)).end_time)

\* C1: for every professional and every date, the number of active
\* assignments of that professional on that date is at most 4, whatever
\* requests have been served.
C1_CapacityNeverExceeded ==
  \A d \in ProfessionalIds, day \in Dates :
     Len(ActiveOnDay(assignments, d, day)) <= 4

\* C2: for every assignment and every schedule entry that assignOne created,
\* start time + visit duration of the patient does not exceed the end of the
\* professional's working hours of that weekday.
C2_VisitEndsWithinWorkingHours ==
  /\ \A i \in 1..Len(assignments) :
        ParseMinutes(assignments[i].scheduled_visit_time)
            + DurationOf(assignments[i].patient_id)
          <= DayEndOf(assignments[i].professional_id, assignments[i].scheduled_visit_date)
  /\ \A i \in 1..Len(schedules) :
        ParseMinutes(schedules[i].start_time) + DurationOf(schedules[i].patient_id)
          <= DayEndOf(schedules[i].professional_id, schedules[i].date)

\* the call reaches its two writes: the patient is found and a slot is available
ReachesWrites(patientId, professionalId, date) ==
  smartAssignPatient(patients, working_hours, Store, patientId, professionalId,
                     date, <<>>, "none").result.success

\* C3: when the store rejects the assignment insert or the schedule-entry
\* insert of assignOne, assignOne returns success = false.
C3_RejectedWriteIsFailure ==
  [][\A p \in RequestPatients, d \in ProfessionalIds, day \in Dates,
        f \in {"patient_assignments.insert", "schedules.insert"} :
        (AssignOne(p, d, day, f) /\ ReachesWrites(p, d, day))
           => ~response'.result.success]_vars

\* C4: when assignOne fails because the patient is not in the store or
\* because the slot calculator reports no available slot, it returns
\* success = false with that reason and the assignments and schedule entries
\* are what they were before the call.
C4_FailureWritesNothing ==
  [][\A p \in RequestPatients, d \in ProfessionalIds, day \in Dates, f \in Faults :
        AssignOne(p, d, day, f) =>
          LET notFound == f # "patients.select" /\ \A x \in patients : x.id # p
              sl == calculateAvailableTimeSlots(working_hours, assignments, d, day, <<>>, f)
              noSlot == f # "patients.select" /\ ~notFound /\ ~sl.available
          IN /\ notFound =>
                  /\ response'.result = [success |-> FALSE, error |-> PatientNotFound]
                  /\ assignments' = assignments /\ schedules' = schedules
             /\ noSlot =>
                  /\ response'.result = [success |-> FALSE, error |-> sl.reason]
                  /\ assignments' = assignments /\ schedules' = schedules]_vars

\* an assignOne call was refused for lack of capacity while the store holds rows
C4_Witness ==
  /\ response.op = "assignOne"
  /\ response.result = [success |-> FALSE, error |-> CapacityReason(4)]
  /\ Len(assignments) = 4
  /\ Len(schedules) = 4

\* C5: the status of an assignment changes only when it is active: once it
\* is completed, reassigned or cancelled no request changes it again.
C5_StatusLeavesOnlyActive ==
  [][\A i \in 1..Len(assignments), j \in 1..Len(assignments') :
        (assignments[i].id = assignments'[j].id
           /\ assignments[i].status # assignments'[j].status)
          => assignments[i].status = "active"]_vars

\* successors of row i: later active rows of the same patient with another professional
Successors(i) ==
  {j \in 1..Len(assignments) :
     /\ assignments[j].id > assignments[i].id
     /\ assignments[j].status = "active"
     /\ assignments[j].patient_id = assignments[i].patient_id
     /\ assignments[j].professional_id # assignments[i].professional_id}

\* C6: in every reachable state every assignment with status reassigned has
\* exactly one succeeding active assignment of the same patient with a
\* different professional.
C6_ReassignedHasOneSuccessor ==
  \A i \in 1..Len(assignments) :
     assignments[i].status = "reassigned" => Cardinality(Successors(i)) = 1

\* C7: with working hours 08:00-16:00 and no active assignment the slot
\* calculator suggests 08:00; successive assignOne calls get 08:00, 10:00,
\* 12:00 and 14:00 in that order, and the fifth is refused with 4/4 patients.
C7_FourSlotsThenFull ==
  LET rows == ActiveOnDay(assignments, "d1", Monday)
      n == Len(rows)
      expected == <<T0800, T1000, T1200, T1400>>
      query == calculateAvailableTimeSlots(working_hours, assignments, "d1", Monday,
                                           <<>>, "none")
      call == smartAssignPatient(patients, working_hours, Store, "p1", "d1", Monday,
                                 <<>>, "none")
  IN /\ n <= 4
     /\ \A i \in 1..n : rows[i].scheduled_visit_time = expected[i]
     /\ n = 0 => query.available /\ query.suggestedTime = T0800
     /\ n < 4 => /\ call.result.success
                 /\ call.result.suggestedTime = expected[n + 1]
                 /\ Len(ActiveOnDay(call.store.assignments, "d1", Monday)) = n + 1
     /\ n = 4 => /\ call.result = [success |-> FALSE, error |-> CapacityReason(4)]
                 /\ query.patientCountOnDay = 4 /\ ~query.available

\* four assignOne calls succeeded for d1 on Monday and the fifth was refused
C7_Witness ==
  /\ Len(ActiveOnDay(assignments, "d1", Monday)) = 4
  /\ assignments[Len(assignments)].scheduled_visit_time = T1400
  /\ response.op = "assignOne"
  /\ ~response.result.success
  /\ response.result.error = CapacityReason(4)

\* number of earlier items of the batch that succeeded for the same professional and date
EarlierSuccesses(b, item) ==
  Cardinality({i \in 1..(b.next - 1) :
                 /\ b.results[i].success
                 /\ b.results[i].professional_id = item.professional_id
                 /\ b.results[i].date = item.date})

\* the slot calculator got as far as counting the load
Counted(sl) ==
  sl.available \/ sl.reason \notin {<<"not computed">>, <<"No working hours for this day">>,
                                    <<"Error checking capacity">>}

\* C8: for each item of a batch the load the slot calculator counts is the
\* active assignments from before the batch plus the earlier successful
\* items of the batch for the same professional and date, each once; an item
\* that finds the load at capacity fails and no count exceeds 4.
C8_BatchLoadCountedOnce ==
  [][\A f \in BulkFaults :
        BulkItem(f) =>
          LET item == bulk.items[bulk.next]
              load == Len(ActiveOnDay(bulk.before, item.professional_id, item.date))
                        + EarlierSuccesses(bulk, item)
          IN /\ Counted(slots') => slots'.patientCountOnDay = load
             /\ load >= 4 => ~bulk'.results[bulk.next].success
             /\ \A d \in ProfessionalIds, day \in Dates :
                   Len(ActiveOnDay(assignments', d, day)) <= 4]_vars

\* a batch met three active assignments, its first item succeeded and its
\* second item was refused for lack of capacity
C8_Witness ==
  /\ bulk.pc = "running"
  /\ bulk.next = 3
  /\ Len(ActiveOnDay(bulk.before, "d1", Monday)) = 3
  /\ bulk.results[1].success
  /\ ~bulk.results[2].success
  /\ bulk.results[2].error = CapacityReason(4)

ItemFields == {"patient_id", "professional_id", "date"}

\* entry r is the input item merged with an outcome
MergesItem(r, item) ==
  /\ ItemFields \subseteq DOMAIN r
  /\ \A k \in ItemFields : r[k] = item[k]
  /\ "success" \in DOMAIN r

\* C9: assignBulk takes its items one after another in input order; it
\* returns total = number of items, one result entry per item in input order
\* (the item merged with its outcome) and successful + failed = total; a
\* failed item does not keep later items from being processed.
C9_OneResultPerItemInOrder ==
  [][/\ \A f \in BulkFaults :
          BulkItem(f) =>
            /\ bulk'.next = bulk.next + 1
            /\ Len(bulk'.results) = bulk.next
            /\ SubSeq(bulk'.results, 1, bulk.next - 1) = bulk.results
            /\ MergesItem(bulk'.results[bulk.next], bulk.items[bulk.next])
            /\ bulk'.items = bulk.items
     /\ BulkFinish =>
            /\ response'.result.total = Len(bulk.items)
            /\ Len(response'.result.results) = Len(bulk.items)
            /\ \A i \in 1..Len(bulk.items) :
                  MergesItem(response'.result.results[i], bulk.items[i])
            /\ response'.result.successful + response'.result.failed
                 = response'.result.total]_vars

\* a batch of two returned: its first item failed, its second succeeded
C9_Witness ==
  /\ response.op = "assignBulk"
  /\ response.status = 200
  /\ response.result.total = 2
  /\ ~response.result.results[1].success
  /\ response.result.results[2].success
  /\ response.result.successful = 1
  /\ response.result.failed = 1

\* C10: whenever assignOne returns success it has inserted exactly one active
\* assignment for the requested patient, professional and date at the
\* returned suggestedTime, and exactly one schedule entry for them that
\* starts at suggestedTime and ends at start + duration of the patient.
C10_SuccessWritesBothRows ==
  [][\A p \in RequestPatients, d \in ProfessionalIds, day \in Dates, f \in Faults :
        (AssignOne(p, d, day, f) /\ response'.result.success) =>
          LET t == response'.result.suggestedTime
          IN /\ assignments' =
                  Append(assignments, AssignmentRow(nextId, p, d, day, t, "active", NoReason))
             /\ Len(schedules') = Len(schedules) + 1
             /\ SubSeq(schedules', 1, Len(schedules)) = schedules
             /\ LET e == schedules'[Len(schedules')]
                IN /\ e.patient_id = p /\ e.professional_id = d /\ e.date = day
                   /\ e.start_time = t
                   /\ e.end_time = FormatTime(ParseMinutes(t) + DurationOf(p))]_vars
\* the arguments of the reassignment requests
ReassignTargets == ProfessionalIds \cup {UnknownProfessionalId}
ReassignReasons == {NoReason, "on leave"}

\* C11: a reassign(oldId, newProfessional, reason) that reports success leaves
\* the old assignment with status reassigned and has created exactly one new
\* active assignment, for the old assignment's patient and the new
\* professional, carrying the given reason; nothing else is changed.
C11_ReassignSwitchesOldAndCreatesNew ==
  [][\A id \in RowIds, d \in ReassignTargets, reason \in ReassignReasons,
        fs \in ReassignFaults :
        (Reassign(id, d, reason, fs) /\ response'.status = 200) =>
          LET n == Len(assignments)
              k == CHOOSE i \in 1..n : assignments[i].id = id
          IN /\ HasId(assignments, id)
             /\ Len(assignments') = n + 1
             /\ assignments'[k].status = "reassigned"
             /\ \A i \in 1..n : i # k => assignments'[i] = assignments[i]
             /\ assignments'[n + 1].status = "active"
             /\ assignments'[n + 1].patient_id = assignments[k].patient_id
             /\ assignments'[n + 1].professional_id = d
             /\ reason # NoReason => assignments'[n + 1].assignment_reason = reason]_vars

\* C12: a reassign that names an old assignment that does not exist, or a new
\* professional that does not exist, reports a failure and leaves every stored
\* assignment as it was.
C12_ReassignOfUnknownChangesNothing ==
  [][\A id \in RowIds, d \in ReassignTargets, reason \in ReassignReasons,
        fs \in ReassignFaults :
        (Reassign(id, d, reason, fs)
           /\ (~HasId(assignments, id) \/ d = UnknownProfessionalId)) =>
          /\ response'.status # 200
          /\ assignments' = assignments]_vars

\* C13: every active assignment carries a calendar date and a start time.
C13_ActiveHasDateAndTime ==
  \A i \in 1..Len(assignments) :
     assignments[i].status = "active" =>
       /\ assignments[i].scheduled_visit_date # NoDate
       /\ assignments[i].scheduled_visit_time # NoTime

Incomplete(item) ==
  item.patient_id = NoId \/ item.professional_id = NoId \/ item.date = NoDate

\* C14: an assignment request that lacks its patient, its professional or its
\* date - a smart-assign body or an item of a bulk-assign batch - is rejected
\* without any store call having been made and without any change of the store.
C14_IncompleteRequestTouchesNothing ==
  [][/\ \A body \in LooseItems :
           (Incomplete(body) /\ SmartAssignRequest(body, "none")) =>
             /\ response'.status = 400
             /\ UNCHANGED requests
             /\ accessed' = {}
             /\ UNCHANGED <<assignments, schedules>>
     /\ (BulkItem("none") /\ Incomplete(bulk.items[bulk.next])) =>
             /\ ~bulk'.results[bulk.next].success
             /\ UNCHANGED requests
             /\ accessed' = {}
             /\ UNCHANGED <<assignments, schedules>>]_vars

\* C15: when a store call made by a slot query, a single assignment or an
\* item of a bulk assignment is rejected, the operation still returns a
\* structured result, whose available / success flag is false and which
\* carries a reason / error detail.
C15_StoreFailureYieldsFailedResult ==
  [][/\ \A f \in Faults :
           (AssignOne("p1", "d1", Monday, f) /\ f \in accessed') =>
             /\ ~response'.result.success
             /\ "error" \in DOMAIN response'.result
     /\ \A f \in SlotFaults :
           (AvailableSlot("d1", Monday, f) /\ f \in accessed') =>
             /\ ~response'.result.available
             /\ "reason" \in DOMAIN response'.result
     /\ \A f \in Faults :
           (BulkItem(f) /\ f \in accessed') =>
             /\ ~bulk'.results[bulk.next].success
             /\ "error" \in DOMAIN bulk'.results[bulk.next]]_vars

\* C16: the slot calculation counts the stored active assignments of the
\* professional on the date plus the caller's in-batch assignments of the same
\* professional and date, and nothing else; when the count is 4 or more it
\* returns available = false, patientCountOnDay = count, maxCapacity = 4 and
\* the reason 'Professional has <count>/4 patients'.
C16_CountsActiveAndInBatch ==
  response.op = "calculateAvailableTimeSlots" =>
    LET d == response.professionalId
        day == response.visitDate
        list == response.existingAssignments
        stored == {i \in 1..Len(assignments) :
                     /\ assignments[i].professional_id = d
                     /\ assignments[i].scheduled_visit_date = day
                     /\ assignments[i].status = "active"}
        inBatch == {j \in 1..Len(list) :
                      /\ list[j].professional_id = d
                      /\ list[j].scheduled_visit_date = day}
        count == Cardinality(stored) + Cardinality(inBatch)
        queriesFailed ==
          response.result.reason \in {<<"No working hours for this day">>,
                                      <<"Error checking capacity">>}
    IN /\ (response.result.available \/ ~queriesFailed) =>
             response.result.patientCountOnDay = count
       /\ (count >= 4 /\ ~queriesFailed) =>
             response.result =
               [available |-> FALSE, patientCountOnDay |-> count, maxCapacity |-> 4,
                reason |-> <<"Professional has ">> \o NumToString(count)
                              \o <<"/", "4", " patients">>]

\* capacity reached only through stored and in-batch assignments together,
\* next to stored assignments and an in-batch entry that are not counted
C16_Witness ==
  /\ response.op = "calculateAvailableTimeSlots"
  /\ response.professionalId = "d1"
  /\ response.visitDate = Monday
  /\ ~response.result.available
  /\ response.result.patientCountOnDay = 4
  /\ Len(ActiveOnDay(assignments, "d1", Monday)) = 3
  /\ \E i \in 1..Len(assignments) : assignments[i].status # "active"
  /\ \E i \in 1..Len(assignments) : assignments[i].professional_id # "d1"
  /\ \E j \in 1..Len(response.existingAssignments) :
        response.existingAssignments[j].professional_id = "d1"
  /\ \E j \in 1..Len(response.existingAssignments) :
        response.existingAssignments[j].professional_id # "d1"

\* C17: every result of a slot query or slot calculation carries both
\* patientCountOnDay and maxCapacity, and maxCapacity is 4.
C17_ResultCarriesCountAndCapacity ==
  response.op \in {"availableSlot", "calculateAvailableTimeSlots"} =>
    /\ {"patientCountOnDay", "maxCapacity"} \subseteq DOMAIN response.result
    /\ response.result.maxCapacity = 4

\* C18: checkSkillMatch is false when the care need is null or empty or the
\* specialization list is null or empty; otherwise, everything in lower case,
\* it is true exactly when some specialization equals the care need, or some
\* key of the care-type table is a substring of the care need and some
\* specialization contains, or is contained in, one of that key's valid
\* specializations.
C18_SkillMatchCharacterised ==
  response.op = "checkSkillMatch" =>
    LET care == response.patientCareNeeded
        list == response.professionalSpecializations
        lowered == {toLowerCase(list[i]) : i \in 1..Len(list)}
    IN response.result =
         IF care \in {NullString, <<>>} \/ list \in {NullList, <<>>}
         THEN FALSE
         ELSE \/ toLowerCase(care) \in lowered
              \/ \E k \in DOMAIN CARE_SPECIALTY_MAP :
                    /\ Includes(toLowerCase(care), CARE_SPECIALTY_MAP[k].key)
                    /\ \E s \in lowered, v \in DOMAIN CARE_SPECIALTY_MAP[k].specs :
                          \/ Includes(s, toLowerCase(CARE_SPECIALTY_MAP[k].specs[v]))
                          \/ Includes(toLowerCase(CARE_SPECIALTY_MAP[k].specs[v]), s)

\* a match found only because the specialization is contained in a valid one
C18_Witness ==
  /\ response.op = "checkSkillMatch"
  /\ response.result
  /\ response.patientCareNeeded = <<"d", "a", "i", "l", "y", " ", "w", "o", "u", "n", "d", " ", "c", "a", "r", "e", " ", "v", "i", "s", "i", "t">>
  /\ response.professionalSpecializations = <<<<"N", "u", "r", "s", "i", "n", "g">>>>

\* C19: getCareDuration returns the override when one is given and is
\* strictly positive; otherwise the table's value for a care type that is a
\* key of the table, and 45 for every care type that is not.
C19_DurationOverrideTableDefault ==
  response.op = "getCareDuration" =>
    /\ response.result.type = "number"
    /\ response.result.value =
         IF response.estimatedCareDuration # NoDuration
              /\ response.estimatedCareDuration > 0
         THEN response.estimatedCareDuration
         ELSE IF response.careNeeded \in CARE_DURATION_KEYS
              THEN CARE_DURATION(response.careNeeded)
              ELSE 45

\* the start a route is computed from, and the distance of a patient from it
StartOf(r) == IF r.startLocation = NullLocation THEN OULU_CENTER ELSE r.startLocation

FromStart(r, patient) ==
  calculateDistance(StartOf(r).lat, StartOf(r).lng, patient.latitude, patient.longitude)

\* the case of C20: two or more patients, all with coordinates, at pairwise
\* different distances from the start
DistinctDistances(r) ==
  /\ r.op = "optimizeRoute"
  /\ r.patients # NullPatients
  /\ Len(r.patients) >= 2
  /\ \A i \in 1..Len(r.patients) : r.patients[i].latitude # NoCoordinate
  /\ \A i \in 1..Len(r.patients), j \in 1..Len(r.patients) :
        i # j => FromStart(r, r.patients[i]) # FromStart(r, r.patients[j])

OrderedFromStart(r) ==
  \A i \in 1..Len(r.result), j \in 1..Len(r.result) :
     i < j => FromStart(r, r.result[i]) < FromStart(r, r.result[j])

\* C20, as stated: for patients that all have coordinates and lie at pairwise
\* different distances from the start, the route is ordered by increasing
\* distance from the start.
C20_RouteOrderedByDistanceFromStart ==
  DistinctDistances(response) => OrderedFromStart(response)

\* all patients lie on one side of the start
OneSide(r) ==
  \/ \A i \in 1..Len(r.patients) : r.patients[i].latitude > StartOf(r).lat
  \/ \A i \in 1..Len(r.patients) : r.patients[i].latitude < StartOf(r).lat

\* C20, amended: for such patients the first of the route is the one nearest
\* to the start, and the route is ordered by increasing distance from the
\* start when the patients lie on one line on one side of the start.
C20_NearestFirstAndOrderedOnOneSide ==
  DistinctDistances(response) =>
    /\ \A i \in 1..Len(response.patients) :
          FromStart(response, response.result[1])
            <= FromStart(response, response.patients[i])
    /\ OneSide(response) => OrderedFromStart(response)

\* three patients north of the start, handed over farthest first, come back
\* nearest first
C20_Witness ==
  /\ DistinctDistances(response)
  /\ OneSide(response)
  /\ Len(response.patients) = 3
  /\ response.patients[1].id = 4
  /\ response.result[1].id = 1
  /\ response.result[3].id = 4

\* number of occurrences of a patient in a list
Occurrences(list, patient) == Cardinality({i \in 1..Len(list) : list[i] = patient})

\* C21: optimizeRoute returns a list that holds each input patient exactly
\* once, of the same length as the input: the empty list for an empty or
\* missing input, the unchanged input for a single patient.
C21_RouteIsPermutation ==
  response.op = "optimizeRoute" =>
    IF response.patients = NullPatients \/ Len(response.patients) = 0
    THEN response.result = <<>>
    ELSE /\ Len(response.patients) = 1 => response.result = response.patients
         /\ Len(response.result) = Len(response.patients)
         /\ \A i \in 1..Len(response.patients) :
               Occurrences(response.result, response.patients[i])
                 = Occurrences(response.patients, response.patients[i])

\* three patients, one of them without coordinates, come back in another order
C21_Witness ==
  /\ response.op = "optimizeRoute"
  /\ response.patients # NullPatients
  /\ Len(response.patients) = 3
  /\ response.result # response.patients
  /\ \E i \in 1..3 : response.patients[i].latitude = NoCoordinate

\* C22, as stated: the travel time is an integer of at least 5, is 5 for the
\* distance zero, and of two calls the one with the larger distance has the
\* strictly larger travel time.
C22_TravelTimeStrictlyIncreasing ==
  [][response'.op = "travelTime" =>
       /\ response'.result \in Nat /\ response'.result >= 5
       /\ response'.distance = 0 => response'.result = 5
       /\ (response.op = "travelTime" /\ response.distance < response'.distance) =>
             response.result < response'.result]_vars

\* C22, amended: the travel time is an integer of at least 5, is 5 for the
\* distance zero, and of two calls the one with the larger distance has a
\* travel time that is not smaller.
C22_TravelTimeNeverDecreases ==
  [][response'.op = "travelTime" =>
       /\ response'.result \in Nat /\ response'.result >= 5
       /\ response'.distance = 0 => response'.result = 5
       /\ (response.op = "travelTime" /\ response.distance < response'.distance) =>
             response.result <= response'.result]_vars

\* a call over more than a kilometre, whose travel time is above the buffer
C22_Witness ==
  /\ response.op = "travelTime"
  /\ response.distance > 1000
  /\ response.result > 5

\* C23: getTravelTimeBetweenLocations returns the travel time of the two
\* coordinates whenever both locations carry coordinates, whether or not they
\* also carry zones, and the zone travel time of the two zones in every other
\* case.
C23_CoordinatesBeforeZones ==
  response.op = "travelTimeBetween" =>
    IF \A l \in {response.from, response.to} :
          l.lat # NoCoordinate /\ l.lng # NoCoordinate
    THEN response.result =
           JsNumber(calculateTravelTime(response.from.lat, response.from.lng,
                                        response.to.lat, response.to.lng))
    ELSE response.result =
           getZoneBasedTravelTime(response.from.area, response.to.area)

\* both locations carry coordinates and zones, and the result is not the zone
\* travel time of the two zones
C23_Witness ==
  /\ response.op = "travelTimeBetween"
  /\ response.from.lat # NoCoordinate /\ response.to.lat # NoCoordinate
  /\ IsZone(response.from.area) /\ IsZone(response.to.area)
  /\ response.result # getZoneBasedTravelTime(response.from.area, response.to.area)

\* C24: getZoneBasedTravelTime returns 15 whenever a zone is null or
\* undefined, the from-zone is no row of the table or the to-zone is missing
\* from that row, and the table entry for two zones of the table.
C24_ZoneDefaultAndTableEntry ==
  response.op = "zoneTravelTime" =>
    /\ response.result.type = "number"
    /\ response.result.value =
         IF IsZone(response.fromArea) /\ IsZone(response.toArea)
         THEN ZONE_TRAVEL_TIME[ZoneIndex(response.fromArea)][ZoneIndex(response.toArea)]
         ELSE 15

\* C25: getZoneBasedTravelTime is symmetric: a call with the two zone names
\* of the previous call exchanged returns what the previous call returned.
C25_ZoneTravelTimeSymmetric ==
  [][(/\ response.op = "zoneTravelTime" /\ response'.op = "zoneTravelTime"
      /\ response'.fromArea = response.toArea
      /\ response'.toArea = response.fromArea) =>
        response'.result = response.result]_vars

\* C26: when two assignOne requests for the same professional and date
\* arrive while the professional has 3 active assignments that day and their
\* store calls interleave, at most one of them succeeds and the professional
\* has at most 4 active assignments that day.
C26_ConcurrentRequestsKeepCapacity ==
  (\A r \in RequestIds : /\ requests[r].pc = "done"
                          /\ requests[r].activeBefore = 3
                          /\ requests[r].professional_id = "d1"
                          /\ requests[r].date = Monday) =>
    /\ \E r \in RequestIds : ~requests[r].result.success
    /\ Len(ActiveOnDay(assignments, "d1", Monday)) <= MAX_PATIENTS_PER_DAY

\* C27: after any sequence of assignOne calls and completions or
\* cancellations for one professional and date, made one at a time, no two
\* active assignments of that professional on that date have the same
\* scheduled start time.
C27_ActiveStartTimesDistinct ==
  LET active == ActiveOnDay(assignments, "d1", Monday)
  IN \A i, j \in 1..Len(active) :
       i # j => active[i].scheduled_visit_time # active[j].scheduled_visit_time

\* weekday of a date, 1 = Monday .. 7 = Sunday (day 0 was a Thursday)
Weekday(date) == ((date + 3) % 7) + 1

Digit(n) == <<"0", "1", "2", "3", "4", "5", "6", "7", "8", "9">>[n + 1]

\* minutes after midnight as zero-padded HH:MM
ZeroPadded(total) ==
  <<Digit((total \div 60) \div 10), Digit((total \div 60) % 10), ":",
    Digit((total % 60) \div 10), Digit((total % 60) % 10)>>

\* minutes after midnight of a zero-padded HH:MM
MinutesOf(hhmm) ==
  LET value(c) == CHOOSE n \in 0..9 : Digit(n) = c
  IN (value(hhmm[1]) * 10 + value(hhmm[2])) * 60 + value(hhmm[4]) * 10 + value(hhmm[5])

\* what C28 says of a slot result for count c and the working-hours window w
SlotAtCandidate(result, c, w) ==
  LET candidate == MinutesOf(w.start_time) + c * 120
  IN IF candidate + 60 > MinutesOf(w.end_time)
     THEN ~result.available /\ result.reason = <<"No time slots available">>
     ELSE result.available /\ result.suggestedTime = ZeroPadded(candidate)

\* number of rows of list for the professional and date, active ones only if asked
RowsFor(list, d, day, activeOnly) ==
  Cardinality({i \in 1..Len(list) :
                 /\ list[i].professional_id = d
                 /\ list[i].scheduled_visit_date = day
                 /\ activeOnly => list[i].status = "active"})

\* C28: when the professional has a working-hours window for the weekday of
\* the date (1 = Monday .. 7 = Sunday) and the count c is below 4, the slot
\* query whose store calls succeed takes start + c x 120 minutes as candidate,
\* answers available = false with 'No time slots available' exactly when
\* candidate + 60 is after the end of the window, and otherwise available =
\* true with the candidate as zero-padded HH:MM.
C28_CandidateSlotWithinWindow ==
  \A d \in ProfessionalIds, day \in Dates, list \in InBatchLists :
    LET window == {w \in working_hours :
                     w.professional_id = d /\ w.weekday = Weekday(day)}
        c == RowsFor(assignments, d, day, TRUE) + RowsFor(list, d, day, FALSE)
        result == calculateAvailableTimeSlots(working_hours, assignments, d, day,
                                              list, "none")
        answered == /\ response.op = "calculateAvailableTimeSlots"
                    /\ response.professionalId = d
                    /\ response.visitDate = day
                    /\ response.existingAssignments = list
        queryFailed == IF response.result.available THEN FALSE
                       ELSE response.result.reason \in
                              {<<"No working hours for this day">>,
                               <<"Error checking capacity">>}
    IN (window # {} /\ c < 4) =>
         \A w \in window :
            /\ SlotAtCandidate(result, c, w)
            /\ (answered /\ ~queryFailed) => SlotAtCandidate(response.result, c, w)

\* a slot was refused for lack of room in the window, not for capacity
C28_Witness ==
  /\ response.op \in {"availableSlot", "calculateAvailableTimeSlots"}
  /\ ~response.result.available
  /\ response.result.reason = <<"No time slots available">>
  /\ response.result.patientCountOnDay \in 1..3

\* an active assignment of d1 on Monday whose time no schedule entry of that
\* professional and day starts at
WithoutScheduleEntry(a) ==
  /\ a.professional_id = "d1" /\ a.scheduled_visit_date = Monday /\ a.status = "active"
  /\ ~\E i \in 1..Len(schedules) :
         /\ schedules[i].professional_id = "d1"
         /\ schedules[i].date = Monday
         /\ schedules[i].start_time = a.scheduled_visit_time

\* C29: the slot query depends on the working hours and the assignment rows
\* only: whatever schedule entries were created, changed or deleted, also
\* when an assignment is left without its schedule entry, the count is the
\* number of active assignment rows and the suggested time is the start of
\* the working hours plus count x 120 minutes.
C29_SlotIgnoresScheduleEntries ==
  response.op = "availableSlot" =>
    LET c == RowsFor(assignments, "d1", Monday, TRUE)
    IN /\ response.result.patientCountOnDay = c
       /\ response.result.available = (c < 4)
       /\ c < 4 => response.result.suggestedTime = ZeroPadded(8 * 60 + c * 120)

\* a slot query answered while an active assignment had lost its schedule
\* entry and an entry existed that belongs to no assignment
C29_Witness ==
  /\ response.op = "availableSlot"
  /\ response.result.available
  /\ \E i \in 1..Len(assignments) : WithoutScheduleEntry(assignments[i])
  /\ Len(schedules) >= RowsFor(assignments, "d1", Monday, TRUE)

\* the zone travel time as C24 states it: the table entry, 15 otherwise
StatedZoneTime(fromArea, toArea) ==
  IF IsZone(fromArea) /\ IsZone(toArea)
  THEN ZONE_TRAVEL_TIME[ZoneIndex(fromArea)][ZoneIndex(toArea)]
  ELSE 15

\* the distance as C30 states it, in metres: the coordinate distance when
\* both have coordinates, half the zone travel time (as kilometres) otherwise
StatedDistance(current, patient) ==
  IF /\ current.lat # NoCoordinate /\ current.lng # NoCoordinate
     /\ patient.latitude # NoCoordinate /\ patient.longitude # NoCoordinate
  THEN calculateDistance(current.lat, current.lng, patient.latitude, patient.longitude)
  ELSE StatedZoneTime(current.area, patient.area) * 500

\* the current location when the k-th element of the route is chosen
CurrentAt(r, k) ==
  IF k = 1 THEN StartOf(r)
  ELSE [lat |-> r.result[k - 1].latitude, lng |-> r.result[k - 1].longitude,
        area |-> r.result[k - 1].area]

\* indices of the input whose patients are not among the first k - 1 of the route
RemainingAt(r, k) ==
  {i \in 1..Len(r.patients) : \A j \in 1..(k - 1) : r.result[j] # r.patients[i]}

\* the k-th element is a nearest remaining patient, the earliest of them
NearestRemaining(r, k) ==
  \E i \in RemainingAt(r, k) :
     /\ r.result[k] = r.patients[i]
     /\ \A j \in RemainingAt(r, k) :
           LET di == StatedDistance(CurrentAt(r, k), r.patients[i])
               dj == StatedDistance(CurrentAt(r, k), r.patients[j])
           IN di < dj \/ (di = dj /\ i <= j)

\* C30: for two or more patients every element of the route is, among the
\* patients not yet in the route, one at minimum distance from the current
\* location (the start, or the city center when the start is null, then the
\* patient before it), the earliest in input order among equals.
C30_EachStepTakesNearestRemaining ==
  (/\ response.op = "optimizeRoute"
   /\ response.patients # NullPatients
   /\ Len(response.patients) >= 2) =>
     /\ Len(response.result) = Len(response.patients)
     /\ \A k \in 1..Len(response.result) : NearestRemaining(response, k)

====
